---- MODULE Spec2Model ----
(***************************************************************************)
(* loki-logger-go: the shipping pipeline of internal/transport/loki.go     *)
(* (LokiTransport: Write, Flush, Close, backgroundFlusher) on top of       *)
(* internal/client/client.go (Client: Push, sendWithRetry).                *)
(*                                                                         *)
(* Goroutines are processes with a program counter.  A step is one         *)
(* critical section of the buffer mutex, one channel operation, or one     *)
(* blocking point of the HTTP client (a send in flight, a backoff wait).   *)
(* The locals of a call live while the call runs and are cleared when it   *)
(* returns; ret describes the call that returned in the step just taken.   *)
(***************************************************************************)
EXTENDS Integers, Sequences, FiniteSets, TLC

\* ------------------------------------------------------------------ bounds
MaxRecords == 3
MaxBatchSize == 2
MaxRetriesCfg == 1
MaxDirect == 1
MaxRate == 2
MaxClock == 5
MaxAllows == 4
TokenParts == 2
MaxThreshold == 2
MaxValues == 3
MaxTracks == 5
MaxLogAllows == 2
MaxKeyCalls == 3
MaxHandles == 3
MaxBodyOver == 2
\* the log calls that ask the limiter while the reporter runs
MaxRepAllows == 3
\* the records of a batch given to buildPayload
MaxPayEntries == 3
\* the trackLabelCardinality calls of the goroutines that track concurrently
MaxLockTracks == 3
\* the retry budgets whose waits are computed
MaxRetriesWide == 66

\* --------------------------------------------------------------- processes
\* c1 owns the logger: it logs and closes (a second Close is c1 again, or a
\* child logger of c1's).  c2 is another goroutine: it logs and calls Flush.
Callers == {"c1", "c2"}
Closers == {"c1"}
Flushers == {"c2"}
Bg == "bg"
Procs == Callers \cup {Bg}
\* the single writer of the solo runs
SoloWriter == "c1"
\* the goroutine of the sequential runs (the unit tests' goroutine)
Harness == "c2"
\* len(entries) of a Write call
WriteSizes == {1, 2}

VARIABLES
    batchSize,      \* LokiTransport.batchSize
    maxRetries,     \* Client.maxRetries
    buffer,         \* LokiTransport.buffer
    stopCh,         \* "open" | "closed"
    doneCh,         \* "open" | "closed"
    panicked,       \* a goroutine panicked: the program is gone
    tickPending,    \* ticker.C holds a tick (channel of capacity 1)
    pc,             \* where each goroutine is
    op,             \* the call it runs: write | flush | push | close | timer | stop
    toSend,         \* Flush's local toSend / Push's entries
    attempt,        \* sendWithRetry's loop variable
    lastErr,        \* sendWithRetry's lastErr
    sends,          \* calls of c.send made by the running sendWithRetry
    cancelAt,       \* -1: ctx live; n: ctx was done when n sends had been started
    ret,            \* the call that returned in the step just taken (NoReturn: none)
    nextId,         \* number of the next record written
    swapCount,      \* per record: the number of buffer swaps that took it
    pushCount,      \* per record: the number of Push calls that carried it
    solo,           \* only c1 has acted, with single-record Writes and nothing else
    closeConc,      \* the calls that ran while the Close call in progress ran
    mu,             \* LokiTransport.mu: the goroutine that holds it, or "free"
    rateLimiter,    \* "nil" (NewRateLimiter returned nil) or "set"
    maxLogsPerSecond, \* RateLimiter.maxLogsPerSecond
    samplingRatio,  \* RateLimiter.samplingRatio, in halves (0, 1/2, 1)
    tokens,         \* RateLimiter.tokens, in parts of a token
    lastRefill,     \* RateLimiter.lastRefill, in clock units
    droppedCount,   \* RateLimiter.droppedCount
    sampledCount,   \* RateLimiter.sampledCount
    rlMu,           \* RateLimiter.mu: the goroutine that holds it, or "free"
    clock,          \* time.Now(), in clock units
    rlPc,           \* where each user of the limiter is
    rlStats,        \* GetAndResetStats' results dropped, sampled, per caller
    rlRet,          \* the limiter call that returned in the step just taken
    burst,          \* Allow calls made on a full bucket with no time elapsed since
    tally,          \* Allow results and GetAndResetStats reports, counted
    maxLabelCardinality, \* config.MaxLabelCardinality
    labelCardinalityMap, \* Logger.labelCardinalityMap: per label key, the values seen
    warnings,       \* per label key: the calls of CardinalityWarningHandler
    trackRet,       \* the trackLabelCardinality call made in the step just taken
    tracks,         \* trackLabelCardinality calls made
    logLevel,       \* config.LogLevel
    alwaysLogLevels, \* config.AlwaysLogLevels
    errorHandler,   \* config.ErrorHandler: "nil" or "set"
    transports,     \* Logger.transports: the names, in order
    loggerMu,       \* Logger.mu: the goroutines holding it for reading, the one writing
    frame,          \* per goroutine: the locals of its running Logger call
    lgRet,          \* the Logger call, or background flush, that returned in this step
    stopSignalled,  \* the Loki transport's Close has closed stopCh
    bgDone,         \* the Loki transport's background flusher has returned
    closeCalled,    \* CloseContext was called
    labels,         \* labelsToKey's argument
    keyRet,         \* the labelsToKey call made in the step just taken
    keysSeen,       \* the labelsToKey calls made: iteration order, key returned
    keyCalls,       \* labelsToKey calls made
    loggerObjs,     \* the Logger objects: their config.Labels map, their transports slice
    mapObjs,        \* the Labels maps allocated: their contents
    labelRet,       \* the WithLabels or log call made in the step just taken
    resp,           \* the backend's answer to the request of send
    sendRet,        \* the send call made in the step just taken
    entry,          \* formatLogLine's argument
    lineRet,        \* the formatLogLine call made in the step just taken
    rateLimitStopCh, \* Logger.rateLimitStopCh: "open" | "closed"
    rateLimitDoneCh, \* Logger.rateLimitDoneCh: "open" | "closed"
    payEntries,     \* buildPayload's argument entries
    payRet,         \* the buildPayload call made in the step just taken
    cardinalityMu,  \* the cardinality mutexes: the goroutine holding each, or "free"
    trackFrame,     \* per goroutine: the locals of its running trackLabelCardinality
    stored,         \* the label keys and values whose insertion into the map was made
    waitRet,        \* sendWithRetry's attempt begun in the step just taken, and its wait
    closePc,        \* per goroutine: where its CloseContext is
    stopCloses,     \* close(l.rateLimitStopCh) executed, counted
    repRet          \* the round of rateLimitStatsReporter's loop made in the step just taken

\* the state the steps of the transport and the client leave alone
limiterVars == <<rateLimiter, maxLogsPerSecond, samplingRatio, tokens, lastRefill,
                 droppedCount, sampledCount, rlMu, clock, rlPc, rlStats, rlRet,
                 burst, tally>>

\* the transport and the client
core == <<batchSize, maxRetries, buffer, stopCh, doneCh, panicked, tickPending,
          pc, op, toSend, attempt, lastErr, sends, cancelAt, ret, nextId,
          swapCount, pushCount, solo, closeConc>>

\* the components beside the transport
trackerVars == <<maxLabelCardinality, labelCardinalityMap, warnings, trackRet, tracks>>

\* the Logger above the transports
loggerVars == <<logLevel, alwaysLogLevels, errorHandler, transports, loggerMu, frame,
                lgRet, stopSignalled, bgDone, closeCalled>>

\* the stream key builder
keyVars == <<labels, keyRet, keysSeen, keyCalls>>

\* the Logger objects WithLabels makes
handleVars == <<loggerObjs, mapObjs, labelRet>>

\* the HTTP request of the client
sendVars == <<resp, sendRet>>

\* the serialization of a record
lineVars == <<entry, lineRet>>

\* the reporter of the limiter's statistics
repVars == <<rateLimitStopCh, rateLimitDoneCh, repRet>>

\* the grouping of a batch into streams
payVars == <<payEntries, payRet>>

\* the components modelled last
\* trackLabelCardinality, lock by lock
lockVars == <<cardinalityMu, trackFrame, stored>>

\* the waits of sendWithRetry
waitVars == <<waitRet>>

\* CloseContext, up to its wait for the reporter
closeVars == <<closePc, stopCloses>>

tail == <<payVars, lockVars, waitVars, closeVars>>

late == <<handleVars, sendVars, lineVars, repVars, tail>>

aside == <<limiterVars, trackerVars, loggerVars, keyVars, late>>

\* all but the rate limiter
besideLimiter == <<core, mu, trackerVars, loggerVars, keyVars, late>>

\* all but the cardinality tracker
besideTracker == <<core, mu, limiterVars, loggerVars, keyVars, late>>

\* all but the Logger and the limiter it asks
besideLogger == <<core, mu, trackerVars, keyVars, late>>

\* all but the stream key builder
besideKey == <<core, mu, limiterVars, trackerVars, loggerVars, late>>

early == <<core, mu, limiterVars, trackerVars, loggerVars, keyVars>>

\* all but the Logger objects
besideHandles == <<early, sendVars, lineVars, repVars, tail>>

\* all but the HTTP request
besideSend == <<early, handleVars, lineVars, repVars, tail>>

\* all but the serialization
besideLine == <<early, handleVars, sendVars, repVars, tail>>

\* all but the reporter and the limiter it reads
besideReporter == <<core, mu, trackerVars, loggerVars, keyVars, handleVars, sendVars,
                    lineVars, tail>>

first == <<early, handleVars, sendVars, lineVars, repVars>>

\* all but the grouping into streams
besidePayload == <<first, lockVars, waitVars, closeVars>>

\* all but the cardinality tracker and its mutex
besideLocks == <<core, mu, limiterVars, loggerVars, keyVars, handleVars, sendVars,
                 lineVars, repVars, payVars, waitVars, closeVars>>

\* all but the waits of sendWithRetry and the retry budget
besideWait == <<first, payVars, lockVars, closeVars>>

\* all but CloseContext, the reporter and the limiter
besideClose == <<core, mu, trackerVars, loggerVars, keyVars, handleVars, sendVars,
                 lineVars, payVars, lockVars, waitVars>>

others == <<mu, aside>>

vars == <<batchSize, maxRetries, buffer, stopCh, doneCh, panicked, tickPending,
          pc, op, toSend, attempt, lastErr, sends, cancelAt, ret, nextId,
          swapCount, pushCount, solo, closeConc, others>>

\* ------------------------------------------------------------------ errors
\* An error is the chain of its wrapped layers, outermost first; nil is <<>>.
Nil == <<>>
Layer(kind, num) == [k |-> kind, n |-> num]
Wrap(kind, num, err) == <<Layer(kind, num)>> \o err
CtxErr == <<Layer("ctx", 0)>>
TimeoutErr == <<Layer("timeout", 0)>>
SendErr(a) == <<Layer("send", a)>>
\* no call returned in this step
NoReturn ==
    [by |-> "none", op |-> "none", batch |-> <<>>, pushed |-> 0, pushErr |-> Nil,
     sends |-> 0, fails |-> 0, cancelAt |-> -1, conc |-> {}, err |-> Nil]

\* ----------------------------------------------------------------- helpers
\* the records of a sequence
Recs(s) == {s[i] : i \in DOMAIN s}

\* the records written so far
Written == 1..(nextId - 1)

\* the entries of Write(ctx, entries...): k fresh records
Entries(k) == [i \in 1..k |-> nextId + i - 1]

\* the entries a caller hands to Client.Push directly
DirectEntries(n) == [i \in 1..n |-> 0 - i]

\* fault: the flusher returning after any doFlush()
AfterOpExits(p) == IF p = Bg THEN "exit" ELSE "idle"
\* where a goroutine continues when its Flush (or Push) has returned
AfterOp(p) ==
    IF p = Bg THEN (IF op[Bg] = "stop" THEN "exit" ELSE "loop") ELSE "idle"

\* each record of s counted once more in count
Counted(count, s) == [r \in DOMAIN count |-> IF r \in Recs(s) THEN count[r] + 1 ELSE count[r]]

\* ------------------------------------------------ LokiTransport, line by line
\* fault: the threshold compared with > in place of >=
ShouldFlushLate(buf) == Len(buf) > batchSize
\* shouldFlush := len(lt.buffer) >= lt.batchSize
ShouldFlush(buf) == Len(buf) >= batchSize

\* fault: the new entries put before the buffered ones
AppendEntriesInFront(buf, entries) == entries \o buf
\* lt.buffer = append(lt.buffer, entries...)
AppendEntries(buf, entries) == buf \o entries

\* fault: the empty check left out
FlushNeverNoop(buf) == FALSE
\* if len(lt.buffer) == 0 { unlock; return nil }
FlushIsNoop(buf) == Len(buf) = 0

\* fault: the buffer not replaced after toSend took it
NewBufferKept(buf) == buf
\* lt.buffer = make([]*types.Entry, 0, lt.batchSize)
NewBuffer(buf) == <<>>

\* toSend := lt.buffer
TakeBuffer(buf) == buf

\* the calls that hold a batch: from Flush's swap to the return of Push
Pushing == {"push", "sending", "backoff"}

\* fault: lt.buffer = lt.buffer[:0], the array of the last batch used again
SharesArrayKept(p) ==
    /\ pc[p] \in Pushing
    /\ toSend[p] # <<>>
    /\ toSend[p][Len(toSend[p])] = nextId - Len(buffer) - 1
\* make(): the new buffer's array is shared with no batch
SharesArray(p) == FALSE

\* what a slice s shows once buf was written into the array it shares
Overwritten(s, buf) == [i \in DOMAIN s |-> IF i <= Len(buf) THEN buf[i] ELSE s[i]]

\* the batch of p after an append made buf of lt.buffer
AfterAppend(p, buf) == IF SharesArray(p) THEN Overwritten(toSend[p], buf) ELSE toSend[p]

\* if err := lt.client.Push(ctx, toSend); err != nil { return fmt.Errorf("failed to push to Loki: %w", err) }
FlushResult(err) == IF err = Nil THEN Nil ELSE Wrap("push", 0, err)

\* fault: a failed batch put back in front of the buffer
BufferRequeued(buf, batch, err) == IF err = Nil THEN buf ELSE batch \o buf
\* Flush's error path returns without touching lt.buffer
BufferAfterPush(buf, batch, err) == buf

\* ------------------------------------------------------- Client, line by line
\* if len(entries) == 0 { return nil }
PushIsNoop(entries) == Len(entries) = 0

\* return fmt.Errorf("failed to build payload: %w", err)
PayloadErr == Wrap("payload", 0, <<Layer("encode", 0)>>)

\* fault: one attempt more than the loop allows
MoreAttemptsOneMore(a) == a <= maxRetries + 1
\* for attempt := 0; attempt <= c.maxRetries; attempt++
MoreAttempts(a) == a <= maxRetries

\* return fmt.Errorf("failed after %d retries: %w", c.maxRetries, lastErr)
RetriesErr(last) == Wrap("retries", maxRetries, last)

\* fault: the backoff wait without the ctx.Done() case
BackoffIgnoresCtx(p) == FALSE
\* select { case <-time.After(backoff): case <-ctx.Done(): return ctx.Err() }
BackoffAborts(p) == cancelAt[p] # -1

\* what the call in progress returns for Push's result err
OpResult(p, err) == IF op[p] = "push" THEN err ELSE FlushResult(err)

\* --------------------------------------------------- starting and returning
\* st maps each goroutine that starts a call to <<pc, op, entries>>
Begin(st) ==
    /\ pc' = [q \in Procs |-> IF q \in DOMAIN st THEN st[q][1] ELSE pc[q]]
    /\ op' = [q \in Procs |-> IF q \in DOMAIN st THEN st[q][2] ELSE op[q]]
    /\ toSend' = [q \in Procs |-> IF q \in DOMAIN st THEN st[q][3] ELSE toSend[q]]
    /\ ret' = NoReturn
    /\ UNCHANGED <<attempt, lastErr, sends, cancelAt>>

\* what a caller of Push sees of sendWithRetry's counter v; through Flush only
\* the error of Push is seen
Seen(p, v, none) == IF op[p] = "push" THEN v ELSE none

\* the call of p returns err, after `pushed` calls of Push, the last of which
\* returned pushErr after `failed` failed sends: the locals of the call are gone
Returns(p, pushed, pushErr, failed, err) ==
    /\ pc' = [pc EXCEPT ![p] = AfterOp(p)]
    /\ op' = [op EXCEPT ![p] = "none"]
    /\ toSend' = [toSend EXCEPT ![p] = <<>>]
    /\ attempt' = [attempt EXCEPT ![p] = 0]
    /\ lastErr' = [lastErr EXCEPT ![p] = Nil]
    /\ sends' = [sends EXCEPT ![p] = 0]
    /\ cancelAt' = [cancelAt EXCEPT ![p] = -1]
    /\ ret' = [by |-> p, op |-> op[p], batch |-> toSend[p], pushed |-> pushed,
                pushErr |-> pushErr, sends |-> Seen(p, sends[p], 0),
                fails |-> Seen(p, failed, 0), cancelAt |-> Seen(p, cancelAt[p], -1),
                conc |-> closeConc, err |-> err]

\* Push returns err to Flush (or to the direct caller), which returns
PushReturns(p, failed, err) ==
    /\ Returns(p, 1, err, failed, OpResult(p, err))
    /\ buffer' = IF op[p] = "push" THEN buffer ELSE BufferAfterPush(buffer, toSend[p], err)

\* calls of callers seen by the Close call
Closing == \E q \in Callers : pc[q] = "closeWait"
NoteConc(kind) == IF Closing THEN closeConc \cup {kind} ELSE closeConc


\* ------------------------------------------------------------- RateLimiter
\* Time is counted in clock units of 1/(maxLogsPerSecond * TokenParts) second,
\* tokens in parts of 1/TokenParts token: one clock unit refills one part.
Allowers == {"a1", "a2"}
Reporters == {"rep"}
RlUsers == Allowers \cup Reporters

\* the configurations NewRateLimiter is called with; the ratio in halves
RateCfgs == (0 - 1)..MaxRate
RatioCfgs == (0 - 1)..3

\* the values rng.Float64() takes, in halves: 0 and 1/2
RngValues == {0, 1}

\* no limiter call returned in this step
NoRlRet == [by |-> "none", op |-> "none", allowed |-> FALSE, sampled |-> FALSE,
            dropped |-> 0, nsampled |-> 0, k |-> 0]

NoTally == [allows |-> 0, dropped |-> 0, sampled |-> 0, repDropped |-> 0, repSampled |-> 0]

\* fault: only a rate of zero disables the limiter
DisabledOnlyZero(rate) == rate = 0
\* if maxLogsPerSecond <= 0 { return nil }
Disabled(rate) == rate <= 0

\* if samplingRatio < 0 { = 0 }; if samplingRatio > 1 { = 1 }
ClampRatio(r) == IF r < 0 THEN 0 ELSE IF r > 2 THEN 2 ELSE r

\* one second, in clock units
Second == maxLogsPerSecond * TokenParts

\* fault: the refill without the cap
RefilledUncapped(tok, elapsed) == tok + elapsed
\* rl.tokens += elapsed * rl.maxLogsPerSecond, capped at rl.maxLogsPerSecond
Refilled(tok, elapsed) ==
    IF tok + elapsed > maxLogsPerSecond * TokenParts
    THEN maxLogsPerSecond * TokenParts
    ELSE tok + elapsed

\* fault: any part of a token admits
HasTokenPart(tok) == tok > 0
\* if rl.tokens >= 1.0
HasToken(tok) == tok >= TokenParts

\* rl.samplingRatio > 0 && rl.rng.Float64() < rl.samplingRatio
Samples(rng) == samplingRatio > 0 /\ rng < samplingRatio

\* fault: the mutex not excluding anybody
MutexIgnored(m) == TRUE
\* rl.mu.Lock() can return
MutexFree(m) == m = "free"

\* the place of an Allow call in a burst on a full bucket: 1 for the first call
\* after construction or after a second without calls, one more for each call
\* that follows with no time elapsed, 0 for any other call
BurstIndex ==
    IF clock - lastRefill >= Second \/ burst = 0 THEN 1
    ELSE IF burst > 0 /\ clock = lastRefill THEN burst + 1
    ELSE 0

\* NewRateLimiter(rate, ratio)
NewRateLimiter(rate, ratio) ==
    /\ maxLogsPerSecond = rate
    /\ rateLimiter = IF Disabled(rate) THEN "nil" ELSE "set"
    /\ samplingRatio = IF Disabled(rate) THEN 0 ELSE ClampRatio(ratio)
    /\ tokens = IF Disabled(rate) THEN 0 ELSE rate * TokenParts
    /\ lastRefill = 0
    /\ droppedCount = 0
    /\ sampledCount = 0
    /\ rlMu = "free"
    /\ clock = 0
    /\ rlPc = [c \in RlUsers |-> "idle"]
    /\ rlStats = [c \in RlUsers |-> <<0, 0>>]
    /\ rlRet = NoRlRet
    /\ burst = 0
    /\ tally = NoTally

\* ------------------------------------------------ label cardinality tracking
LabelKeys == {"app", "level"}
LabelValues == 1..MaxValues

\* no trackLabelCardinality call was made in this step
NoTrack == [key |-> "none", before |-> 0, after |-> 0, warned |-> FALSE, args |-> <<>>]

\* if l.config.MaxLabelCardinality <= 0 { return }
TrackingOff == maxLabelCardinality <= 0

\* l.labelCardinalityMap[labelKey][labelValue] = struct{}{}
Recorded(seen, value) == seen \cup {value}

\* uniqueCount > MaxLabelCardinality && uniqueCount == MaxLabelCardinality+1
ShouldWarn(uniqueCount) ==
    uniqueCount > maxLabelCardinality /\ uniqueCount = maxLabelCardinality + 1

\* New: an empty map, the threshold from the configuration
NewTracker(threshold) ==
    /\ maxLabelCardinality = threshold
    /\ labelCardinalityMap = [k \in LabelKeys |-> {}]
    /\ warnings = [k \in LabelKeys |-> <<>>]
    /\ trackRet = NoTrack
    /\ tracks = 0

\* a logger without cardinality tracking
TrackerOff == NewTracker(0)

\* a logger without rate limiting
LimiterOff == NewRateLimiter(0, 0)

\* ------------------------------------------------------------------ Logger
\* the goroutines that call the Logger: g1 logs and closes, g2 flushes
Loggers == {"g1", "g2"}
LogWriters == {"g1"}
LogClosers == {"g1"}
LogFlushers == {"g2"}

\* LevelDebug Level = iota, LevelInfo, LevelWarn, LevelError, LevelFatal
LevelRank == [debug |-> 0, info |-> 1, warn |-> 2, error |-> 3, fatal |-> 4]

\* the levels the goroutines log at
LoggedLevels == {"info", "error"}

\* the configurations: the minimum level, the levels that are never limited
LogLevelCfgs == {"info", "fatal"}
AlwaysCfgs == {{"error", "fatal"}, {}}

\* the lists of transports: what setupTransports builds, and two transports of
\* which every method can fail
TransportLists == {<<"console", "loki">>, <<"mock1", "mock2">>}

\* the console transport's Flush and Close return nil
CanFail(t, method) == ~(t = "console" /\ method \in {"Flush", "Close"})

\* the error of the failed call of method on the i-th transport
Failure(method, i) == <<Layer(method, i)>>

\* return l >= configuredLevel
IsEnabled(level, configured) == LevelRank[level] >= LevelRank[configured]

\* fault: no level is exempt from the limiter
AlwaysLogNever(level) == FALSE
\* for _, alwaysLevel := range l.config.AlwaysLogLevels { if level == alwaysLevel ... }
AlwaysLog(level) == level \in alwaysLogLevels

\* fault: the loop over the transports left at the first error
NextIndexStop(i, err) == IF err = Nil THEN i + 1 ELSE Len(transports) + 1
\* for _, t := range l.transports: the next transport, whatever the call returned
NextIndex(i, err) == i + 1

\* the library locks goroutine g holds
HeldBy(g) ==
    (IF g \in loggerMu.readers THEN {"l.mu.RLock"} ELSE {})
    \cup (IF loggerMu.writer = g THEN {"l.mu.Lock"} ELSE {})
    \cup (IF mu = g THEN {"lt.mu"} ELSE {})

\* a goroutine outside any Logger call
NoFrame ==
    [pc |-> "idle", op |-> "none", method |-> "none", level |-> "none", i |-> 0,
     err |-> Nil, firstErr |-> Nil, flushErr |-> Nil, trace |-> <<>>, fails |-> <<>>,
     cbs |-> <<>>, held |-> {}, allowCalled |-> FALSE, touched |-> FALSE]

\* no Logger call returned in this step
NoLgRet ==
    [by |-> "none", op |-> "none", level |-> "none", admitted |-> FALSE,
     trace |-> <<>>, fails |-> <<>>, cbs |-> <<>>, held |-> {},
     allowCalled |-> FALSE, touched |-> FALSE, err |-> Nil]

\* New: the configuration, the transports, nobody inside
NewLogger(level, always, handler, list) ==
    /\ logLevel = level
    /\ alwaysLogLevels = always
    /\ errorHandler = handler
    /\ transports = list
    /\ loggerMu = [readers |-> {}, writer |-> "none"]
    /\ frame = [g \in Loggers |-> NoFrame]
    /\ lgRet = NoLgRet
    /\ stopSignalled = FALSE
    /\ bgDone = FALSE
    /\ closeCalled = FALSE

\* the Logger unused
LoggerOff == NewLogger("info", {}, "nil", <<>>)

\* -------------------------------------------------------- stream key builder
\* no labelsToKey call was made in this step
NoKeyRet == [order |-> <<>>, keys |-> <<>>, key |-> <<>>]

\* the mapping without labels
NoLabels == [n \in {} |-> <<>>]

\* the key builder with the mapping it is asked about
NewKeyBuilder(m) ==
    /\ labels = m
    /\ keyRet = NoKeyRet
    /\ keysSeen = {}
    /\ keyCalls = 0

\* the key builder unused
KeyOff == NewKeyBuilder(NoLabels)

\* A string is the sequence of its characters.  The characters, in byte order.
Chars == <<"1", "2", ";", "=", "a", "b">>
CharRank(c) == CHOOSE i \in DOMAIN Chars : Chars[i] = c

\* the label names "a", "ab", "b" and the label values "1", "2", "1;b=2":
\* keys and values are any strings, '=' and ';' included
LabelNames == {<<"a">>, <<"a", "b">>, <<"b">>}
LabelTexts == {<<"1">>, <<"2">>, <<"1", ";", "b", "=", "2">>}

\* the mappings: map[string]string
LabelMaps == UNION {[D -> LabelTexts] : D \in SUBSET LabelNames}

\* the orders in which for k := range labels can go over the mapping
RangeOrders(m) ==
    {o \in [1..Cardinality(DOMAIN m) -> DOMAIN m] :
        \A i, j \in DOMAIN o : i # j => o[i] # o[j]}

\* x < y on Go strings: byte by byte, a proper prefix first
RECURSIVE StringLess(_, _)
StringLess(x, y) ==
    IF y = <<>> THEN FALSE
    ELSE IF x = <<>> THEN TRUE
    ELSE IF x[1] = y[1] THEN StringLess(Tail(x), Tail(y))
    ELSE CharRank(x[1]) < CharRank(y[1])

\* k put at its place in the sorted strings
RECURSIVE Inserted(_, _)
Inserted(k, sorted) ==
    IF sorted = <<>> THEN <<k>>
    ELSE IF StringLess(sorted[1], k) THEN <<sorted[1]>> \o Inserted(k, Tail(sorted))
    ELSE <<k>> \o sorted

\* fault: the keys left in the order of the iteration
SortStringsSkipped(keys) == keys
\* sort.Strings(keys)
RECURSIVE SortStrings(_)
SortStrings(keys) ==
    IF keys = <<>> THEN <<>> ELSE Inserted(keys[1], SortStrings(Tail(keys)))

\* for _, k := range keys { buf.WriteString(k); "="; labels[k]; ";" }
RECURSIVE WriteStrings(_, _)
WriteStrings(keys, m) ==
    IF keys = <<>> THEN <<>>
    ELSE keys[1] \o <<"=">> \o m[keys[1]] \o <<";">> \o WriteStrings(Tail(keys), m)

\* labelsToKey(labels), the range loop going over the mapping in the given order
labelsToKey(m, order) ==
    IF Cardinality(DOMAIN m) = 0 THEN <<>>
    ELSE WriteStrings(SortStrings(order), m)

\* ----------------------------------------------------------- Logger objects
\* no WithLabels or log call was made in this step
NoLabelRet == [op |-> "none", parent |-> 0, child |-> 0, given |-> NoLabels,
               before |-> NoLabels, labels |-> NoLabels]

\* the label keys and values of the configurations and of WithLabels
HandleKeys == {"env", "component"}
HandleValues == {"prod", "dev"}
HandleMaps == UNION {[D -> HandleValues] : D \in SUBSET HandleKeys}

\* m[k] = v
Put(m, k, v) == [x \in DOMAIN m \cup {k} |-> IF x = k THEN v ELSE m[x]]

\* for k, v := range src { m[k] = v }, over the keys left
RECURSIVE PutAll(_, _, _)
PutAll(m, src, keys) ==
    IF keys = {} THEN m
    ELSE LET k == CHOOSE x \in keys : TRUE
         IN PutAll(Put(m, k, src[k]), src, keys \ {k})

\* fault: the child's configuration keeps the parent's map
ChildMapShared(parentMap) == parentMap
\* newConfig.Labels = make(types.Labels): a map of its own
ChildMap(parentMap) == Len(mapObjs) + 1

\* New: one Logger, with the labels of its configuration and its transports
NewRoot(m) ==
    /\ loggerObjs = <<[labels |-> 1, transports |-> 1, made |-> m]>>
    /\ mapObjs = <<m>>
    /\ labelRet = NoLabelRet

\* no Logger object
HandlesOff ==
    /\ loggerObjs = <<>>
    /\ mapObjs = <<>>
    /\ labelRet = NoLabelRet

\* --------------------------------------------------------------------- send
\* maxErrorBodySize = 1024 // 1KB
maxErrorBodySize == 1024

\* The answer: Do's error or the status, the body, and the place at which
\* reading the body breaks (after that many bytes; -1: it ends with EOF).
NoResp == [doFails |-> FALSE, status |-> 0, body |-> <<>>, breaksAt |-> 0 - 1]

\* no error, and an error made by fmt.Errorf from a format and its arguments
NoErr == [format |-> "nil", status |-> 0, body |-> <<>>]
Errorf(format, status, body) == [format |-> format, status |-> status, body |-> body]

\* no send call was made in this step
NoSendRet == [called |-> FALSE, read |-> <<>>, readErr |-> FALSE, err |-> NoErr]

\* the statuses and the bodies of the answers; the last byte of a body is "z"
Statuses == {199, 200, 204, 299, 300, 404, 500}
BodyLengths ==
    {0, 1} \cup {maxErrorBodySize + d : d \in (0 - 1)..MaxBodyOver}
Body(n) == [i \in 1..n |-> IF i = n THEN "z" ELSE "x"]
Answers ==
    {[doFails |-> d, status |-> st, body |-> Body(n), breaksAt |-> b] :
        d \in BOOLEAN, st \in Statuses, n \in BodyLengths,
        b \in {0 - 1, 0, 1, maxErrorBodySize + 1}}

\* the smaller of two numbers
Least(a, b) == IF a < b THEN a ELSE b

\* what resp.Body delivers: the bytes up to the break, or all of them
Delivered(r) ==
    IF r.breaksAt >= 0 /\ r.breaksAt <= Len(r.body)
    THEN SubSeq(r.body, 1, r.breaksAt) ELSE r.body

\* resp.Body ends with an error, not with EOF
Breaks(r) == r.breaksAt >= 0 /\ r.breaksAt <= Len(r.body)

\* fault: the body read without a limit
ReadAllUnlimited(r, limit) ==
    [bytes |-> Delivered(r), err |-> Breaks(r)]
\* io.ReadAll(io.LimitReader(resp.Body, limit)): the reader stops at the limit,
\* at EOF or at the error, whichever comes first
ReadAll(r, limit) ==
    [bytes |-> SubSeq(Delivered(r), 1, Least(Len(Delivered(r)), limit)),
     err |-> Breaks(r) /\ Len(Delivered(r)) < limit]

\* resp.StatusCode < 200 || resp.StatusCode >= 300
BadStatus(st) == st < 200 \/ st >= 300

\* c.send(ctx, payload) with the answer r
send(r) ==
    IF r.doFails THEN Errorf("failed to send request: %w", 0, <<>>)
    ELSE IF BadStatus(r.status)
    THEN IF ReadAll(r, maxErrorBodySize).err
         THEN Errorf("loki returned status %d (failed to read response body: %w)",
                     r.status, <<>>)
         ELSE Errorf("loki returned status %d: %s", r.status,
                     ReadAll(r, maxErrorBodySize).bytes)
    ELSE NoErr

\* the client with the answer the backend will give
NewRequest(r) ==
    /\ resp = r
    /\ sendRet = NoSendRet

\* no request
SendOff == NewRequest(NoResp)

\* ------------------------------------------------------------ formatLogLine
NoEntry == [level |-> "none", message |-> "", fields |-> NoLabels]

\* no formatLogLine call was made in this step
NoLineRet == [called |-> FALSE, line |-> <<>>, newline |-> FALSE, failed |-> FALSE]

\* values of type any: a string, an int, and a channel, which JSON cannot hold
Str(text) == [t |-> "string", v |-> text]
Num(digits) == [t |-> "int", v |-> digits]
Chan == [t |-> "chan", v |-> ""]

\* the records: levels, a message, fields of any of three names
FieldNames == {"level", "message", "user_id"}
FieldValues == {Str("login"), Num("123"), Chan}
FieldMaps == UNION {[D -> FieldValues] : D \in SUBSET FieldNames}
Entries4Line ==
    {[level |-> lv, message |-> "test message", fields |-> f] :
        lv \in {"info", "error"}, f \in FieldMaps}

\* the keys of a JSON object are written in sorted order
SortedNames == <<"level", "message", "user_id">>

\* data["level"] = entry.Level.String(); data["message"] = entry.Message;
\* maps.Copy(data, entry.Fields)
LineData(e) ==
    PutAll(Put(Put(NoLabels, "level", Str(e.level)), "message", Str(e.message)),
           e.fields, DOMAIN e.fields)

\* the JSON text of a value
JsonOf(value) ==
    IF value.t = "string" THEN [kind |-> "string", text |-> value.v]
    ELSE [kind |-> "number", text |-> value.v]

\* encoder.Encode(data): an error on a value that JSON cannot hold, or the
\* members in the order of their keys, and a newline
EncodeFails(data) == \E k \in DOMAIN data : data[k].t = "chan"
Encode(data) ==
    LET keys == SelectSeq(SortedNames, LAMBDA k : k \in DOMAIN data)
    IN [i \in DOMAIN keys |-> [key |-> keys[i], json |-> JsonOf(data[keys[i]])]]

\* the record to be serialized
NewEntry(e) ==
    /\ entry = e
    /\ lineRet = NoLineRet

\* no record
LineOff == NewEntry(NoEntry)

\* --------------------------------------------------- rateLimitStatsReporter
\* no round of the reporter's loop was made in this step
NoRepRet == [on |-> "none", dropped |-> 0, sampled |-> 0, called |-> FALSE,
             pending |-> <<0, 0>>]

\* New: the reporter started, or rateLimitDoneCh closed at once
NewReporter(started) ==
    /\ rateLimitStopCh = "open"
    /\ rateLimitDoneCh = IF started THEN "open" ELSE "closed"
    /\ repRet = NoRepRet

\* no reporter
ReporterOff == NewReporter(FALSE)

\* the components added to the first ones, unused
\* ------------------------------------------------------------- buildPayload
\* no buildPayload call was made in this step
NoPayRet == [called |-> FALSE, failed |-> FALSE, streams |-> <<>>]

\* the label sets of the records: one value holds ';' and '='
PayLabels ==
    {m \in LabelMaps :
        \/ DOMAIN m = {<<"a">>}
        \/ DOMAIN m = {<<"a">>, <<"b">>} /\ m[<<"a">>] = <<"1">> /\ m[<<"b">>] = <<"2">>}

\* the records: their labels, and whether formatLogLine can encode their fields
PayEntries == [labels : PayLabels, encodes : BOOLEAN]

\* the batches Push hands over, up to MaxPayEntries records
Batches == UNION {[1..n -> PayEntries] : n \in 0..MaxPayEntries}

\* c.labelsToKey(entry.Labels): the key is the same for every iteration order
KeyOf(m) == labelsToKey(m, CHOOSE o \in RangeOrders(m) : TRUE)

\* s, exists := streams[labelKey]
StreamExists(streams, labelKey) == labelKey \in DOMAIN streams

\* the streams map after the first n entries; a value is the place of its
\* record in the batch, which stands for [timestamp, logLine]
RECURSIVE GroupEntries(_, _)
GroupEntries(es, n) ==
    IF n = 0 THEN [k \in {} |-> <<>>]
    ELSE LET streams == GroupEntries(es, n - 1)
             labelKey == KeyOf(es[n].labels)
         IN IF StreamExists(streams, labelKey)
            THEN [streams EXCEPT ![labelKey].values = Append(@, n)]
            ELSE Put(streams, labelKey, [stream |-> es[n].labels, values |-> <<n>>])

\* formatLogLine returns an error for some entry: return nil, err
FormatFails(es) == \E i \in DOMAIN es : ~es[i].encodes

\* buildPayload is given the batch es
NewPayload(es) ==
    /\ payEntries = es
    /\ payRet = NoPayRet

\* no batch to group
PayloadOff == NewPayload(<<>>)

\* the components modelled last, unused
\* ------------------------------------- trackLabelCardinality, lock by lock
\* the goroutines that track: t1 through the parent Logger, t2 through a child
\* made by WithFields
Trackers == {"t1", "t2"}
LoggerOf == [t1 |-> "parent", t2 |-> "child"]

\* fault: WithFields giving the child a mutex of its own
ChildMutexOwn(parentMu) == parentMu + 1
\* cardinalityMu: l.cardinalityMu, // Share mutex
ChildMutex(parentMu) == parentMu

\* the mutex a Logger locks: New makes one, WithFields hands it on
MutexOf(logger) == IF logger = "parent" THEN 1 ELSE ChildMutex(1)

\* fault: Lock returning though the mutex is held
LockReadyAlways(holder) == TRUE
\* l.cardinalityMu.Lock() returns when nobody holds the mutex
LockReady(holder) == holder = "free"

\* no call in progress
NoTrackFrame == [pc |-> "idle", key |-> "none", value |-> 0, seen |-> {}, count |-> 0]

\* New: one mutex, nobody tracking
NewLocks ==
    /\ cardinalityMu = [m \in 1..2 |-> "free"]
    /\ trackFrame = [g \in Trackers |-> NoTrackFrame]
    /\ stored = {}

\* the tracker's mutex unused
LocksOff == NewLocks

\* ------------------------------------------------- sendWithRetry's backoff
initialBackoffMS == 100
Millisecond == 1000000
Int64Bits == 64

\* n = OddPart(n) * 2^TwoPower(n), for n > 0
RECURSIVE TwoPower(_)
TwoPower(n) == IF n % 2 = 1 THEN 0 ELSE 1 + TwoPower(n \div 2)
RECURSIVE OddPart(_)
OddPart(n) == IF n % 2 = 1 THEN n ELSE OddPart(n \div 2)

\* the bit i of m
Bit(m, i) == (m \div (2 ^ i)) % 2

\* The int64 that odd * 2^e is in two's complement of 64 bits (odd < 2^30):
\* the bits of odd from Int64Bits - e on are lost, the highest bit left is the
\* sign; exact says that no bit was lost.
Int64(odd, e) ==
    LET keep == Int64Bits - e
    IN IF keep <= 0 THEN [sign |-> "zero", exact |-> FALSE]
       ELSE IF keep > 30 THEN [sign |-> "positive", exact |-> TRUE]
       ELSE IF Bit(odd, keep - 1) = 1 THEN [sign |-> "negative", exact |-> FALSE]
       ELSE IF odd % (2 ^ (keep - 1)) = 0 THEN [sign |-> "zero", exact |-> FALSE]
       ELSE [sign |-> "positive", exact |-> odd < 2 ^ (keep - 1)]

\* time.Duration(initialBackoffMS*(1<<uint(attempt-1))) * time.Millisecond:
\* the product initialBackoffMS * Millisecond * 2^(attempt-1) in int64
BackoffOf(a) ==
    Int64(OddPart(initialBackoffMS * Millisecond),
          TwoPower(initialBackoffMS * Millisecond) + (a - 1))

\* no attempt begun in this step
NoWaitRet == [attempt |-> 0 - 1, waited |-> FALSE, backoff |-> [sign |-> "none", exact |-> FALSE]]

\* sendWithRetry not called
WaitOff == waitRet = NoWaitRet

\* ------------------------------------------------------------- CloseContext
\* the goroutines that close: k1 the parent Logger, k2 a child made by WithFields
LogHandles == {"k1", "k2"}

\* nobody closing
CloseOff ==
    /\ closePc = [g \in LogHandles |-> "idle"]
    /\ stopCloses = 0

\* the components modelled last, unused
TailOff == PayloadOff /\ LocksOff /\ WaitOff /\ CloseOff

LateOff == HandlesOff /\ SendOff /\ LineOff /\ ReporterOff /\ TailOff

\* the components beside the transport, unused
AsideOff == LimiterOff /\ TrackerOff /\ LoggerOff /\ KeyOff /\ LateOff

\* ------------------------------------------------------------------- Init
InitCommon ==
    /\ buffer = <<>>
    /\ stopCh = "open"
    /\ doneCh = "open"
    /\ panicked = FALSE
    /\ tickPending = FALSE
    /\ op = [q \in Procs |-> "none"]
    /\ toSend = [q \in Procs |-> <<>>]
    /\ attempt = [q \in Procs |-> 0]
    /\ lastErr = [q \in Procs |-> Nil]
    /\ sends = [q \in Procs |-> 0]
    /\ cancelAt = [q \in Procs |-> -1]
    /\ ret = NoReturn
    /\ nextId = 1
    /\ swapCount = [r \in 1..MaxRecords |-> 0]
    /\ pushCount = [r \in 1..MaxRecords |-> 0]
    /\ solo = TRUE
    /\ closeConc = {}
    /\ mu = "free"

\* NewLokiTransport: empty buffer, open channels, the flusher started; the
\* batch size is the smallest or the largest one
Init ==
    /\ batchSize \in {1, MaxBatchSize}
    /\ maxRetries = MaxRetriesCfg
    /\ pc = [q \in Procs |-> IF q = Bg THEN "loop" ELSE "idle"]
    /\ InitCommon
    /\ AsideOff

\* the same transport, with every retry budget the sequential runs use
InitSeq ==
    /\ batchSize \in {1, MaxBatchSize}
    /\ maxRetries \in 0..(MaxRetriesCfg + 2)
    /\ pc = [q \in Procs |-> IF q = Bg THEN "loop" ELSE "idle"]
    /\ InitCommon
    /\ AsideOff

\* ------------------------------------------------------ LokiTransport.Write
\* the records the runs write: with a batch size of 1 every record is a batch
\* of its own, and one record less makes as many batches
RecordBudget == IF batchSize = 1 THEN MaxRecords - 1 ELSE MaxRecords

WriteCall(p, k) ==
    /\ ~panicked
    /\ pc[p] = "idle"
    /\ nextId + k - 1 <= RecordBudget
    /\ LET buf == AppendEntries(buffer, Entries(k))
       IN /\ buffer' = buf
          /\ toSend' = [q \in Procs |-> AfterAppend(q, buf)]
          /\ IF ShouldFlush(buf)
             THEN /\ pc' = [pc EXCEPT ![p] = "flush"]
                  /\ op' = [op EXCEPT ![p] = "write"]
                  /\ ret' = NoReturn
             ELSE /\ ret' = [NoReturn EXCEPT !.by = p, !.op = "write", !.conc = closeConc]
                  /\ UNCHANGED <<pc, op>>
          /\ UNCHANGED <<attempt, lastErr, sends, cancelAt>>
    /\ nextId' = nextId + k
    /\ solo' = (solo /\ p = SoloWriter /\ k = 1)
    /\ closeConc' = NoteConc("write")
    /\ UNCHANGED <<others, batchSize, maxRetries, stopCh, doneCh, panicked, tickPending,
                   swapCount, pushCount>>

\* a caller calls LokiTransport.Flush
FlushCall(p) ==
    /\ ~panicked
    /\ pc[p] = "idle"
    /\ Begin(p :> <<"flush", "flush", <<>>>>)
    /\ solo' = FALSE
    /\ closeConc' = NoteConc("flush")
    /\ UNCHANGED <<others, batchSize, maxRetries, buffer, stopCh, doneCh, panicked,
                   tickPending, nextId, swapCount, pushCount>>

\* LokiTransport.Flush, the critical section: empty check, swap, unlock
FlushSwap(p) ==
    /\ ~panicked
    /\ pc[p] = "flush"
    /\ IF FlushIsNoop(buffer)
       THEN /\ Returns(p, 0, Nil, 0, Nil)
            /\ UNCHANGED <<buffer, swapCount>>
       ELSE /\ toSend' = [toSend EXCEPT ![p] = TakeBuffer(buffer)]
            /\ buffer' = NewBuffer(buffer)
            /\ swapCount' = Counted(swapCount, TakeBuffer(buffer))
            /\ pc' = [pc EXCEPT ![p] = "push"]
            /\ ret' = NoReturn
            /\ UNCHANGED <<op, attempt, lastErr, sends, cancelAt>>
    /\ UNCHANGED <<others, batchSize, maxRetries, stopCh, doneCh, panicked, tickPending,
                   nextId, pushCount, solo, closeConc>>

\* --------------------------------------------------------------- Client.Push
\* a caller calls Client.Push with n entries of its own
PushDirect(p, n) ==
    /\ ~panicked
    /\ pc[p] = "idle"
    /\ Begin(p :> <<"push", "push", DirectEntries(n)>>)
    /\ solo' = FALSE
    /\ UNCHANGED <<others, batchSize, maxRetries, buffer, stopCh, doneCh, panicked,
                   tickPending, nextId, swapCount, pushCount, closeConc>>

\* Push: the empty check, buildPayload, and sendWithRetry up to its first c.send
PushCall(p) ==
    /\ ~panicked
    /\ pc[p] = "push"
    /\ pushCount' = Counted(pushCount, toSend[p])
    /\ \E payloadOK \in BOOLEAN :
         IF PushIsNoop(toSend[p])
         THEN PushReturns(p, 0, Nil)
         ELSE IF ~payloadOK
         THEN PushReturns(p, 0, PayloadErr)
         ELSE /\ pc' = [pc EXCEPT ![p] = "sending"]
              /\ sends' = [sends EXCEPT ![p] = @ + 1]
              /\ ret' = NoReturn
              /\ UNCHANGED <<buffer, op, toSend, attempt, lastErr, cancelAt>>
    /\ UNCHANGED <<others, batchSize, maxRetries, stopCh, doneCh, panicked, tickPending,
                   nextId, swapCount, solo, closeConc>>

\* c.send returns: nil, or an error (transport failure or status outside 2xx)
SendEnd(p, ok) ==
    /\ ~panicked
    /\ pc[p] = "sending"
    /\ ok => cancelAt[p] # 0
    /\ IF ok
       THEN PushReturns(p, attempt[p], Nil)
       ELSE IF MoreAttempts(attempt[p] + 1)
       THEN /\ lastErr' = [lastErr EXCEPT ![p] = SendErr(attempt[p])]
            /\ attempt' = [attempt EXCEPT ![p] = @ + 1]
            /\ pc' = [pc EXCEPT ![p] = "backoff"]
            /\ ret' = NoReturn
            /\ UNCHANGED <<buffer, op, toSend, sends, cancelAt>>
       ELSE PushReturns(p, attempt[p] + 1, RetriesErr(SendErr(attempt[p])))
    /\ UNCHANGED <<others, batchSize, maxRetries, stopCh, doneCh, panicked, tickPending,
                   nextId, swapCount, pushCount, solo, closeConc>>

\* the backoff select: ctx.Done() aborts, else the wait elapses and c.send starts.
\* The timer of time.After is new when the select is evaluated (backoff is at
\* least initialBackoffMS), so a context that is done by then is the one ready
\* case; a context done after the timer fired is one done during the next send.
Backoff(p) ==
    /\ ~panicked
    /\ pc[p] = "backoff"
    /\ IF BackoffAborts(p)
       THEN PushReturns(p, attempt[p], CtxErr)
       ELSE /\ pc' = [pc EXCEPT ![p] = "sending"]
            /\ sends' = [sends EXCEPT ![p] = @ + 1]
            /\ ret' = NoReturn
            /\ UNCHANGED <<buffer, op, toSend, attempt, lastErr, cancelAt>>
    /\ UNCHANGED <<others, batchSize, maxRetries, stopCh, doneCh, panicked, tickPending,
                   nextId, swapCount, pushCount, solo, closeConc>>

\* the context of p's call is cancelled, or its deadline expires, at the given
\* points of the call
CancelAt(p, points) ==
    /\ ~panicked
    /\ pc[p] \in points
    /\ cancelAt[p] = -1
    /\ cancelAt' = [cancelAt EXCEPT ![p] = sends[p]]
    /\ ret' = NoReturn
    /\ UNCHANGED <<others, batchSize, maxRetries, buffer, stopCh, doneCh, panicked,
                   tickPending, pc, op, toSend, attempt, lastErr, sends,
                   nextId, swapCount, pushCount, solo, closeConc>>

\* ctx is done while sendWithRetry runs
CancelCtx(p) == CancelAt(p, {"sending", "backoff"})

\* ctx is done before Push makes its first send
CancelEarly(p) == CancelAt(p, {"push"})

\* -------------------------------------------------------- backgroundFlusher
\* fault: the stop case returning without its doFlush()
BgFlushSkipsFinal(o) == Bg :> <<IF o = "stop" THEN "exit" ELSE "flush", o, <<>>>>
\* fault: the ticker case not flushing
BgFlushTimerIdle(o) == Bg :> <<IF o = "timer" THEN "loop" ELSE "flush", o, <<>>>>
\* doFlush(), entered from the select case o ("timer" or "stop")
BgFlush(o) == Bg :> <<"flush", o, <<>>>>

\* the select of the loop is evaluated with a case ready: Go picks any ready case
BgSelect ==
    /\ ~panicked
    /\ pc[Bg] = "loop"
    /\ \/ /\ tickPending
          /\ tickPending' = FALSE
          /\ Begin(BgFlush("timer"))
       \/ /\ stopCh = "closed"
          /\ Begin(BgFlush("stop"))
          /\ UNCHANGED <<tickPending>>
    /\ UNCHANGED <<others, batchSize, maxRetries, buffer, stopCh, doneCh, panicked,
                   nextId, swapCount, pushCount, solo, closeConc>>

\* the select is evaluated with no case ready: the flusher blocks
BgBlock ==
    /\ ~panicked
    /\ pc[Bg] = "loop"
    /\ ~tickPending
    /\ stopCh = "open"
    /\ pc' = [pc EXCEPT ![Bg] = "blocked"]
    /\ ret' = NoReturn
    /\ UNCHANGED <<others, batchSize, maxRetries, buffer, stopCh, doneCh, panicked,
                   tickPending, op, toSend, attempt, lastErr, sends, cancelAt,
                   nextId, swapCount, pushCount, solo, closeConc>>

\* the ticker fires: a blocked flusher takes the tick, else ticker.C keeps one
TickFire ==
    /\ ~panicked
    /\ pc[Bg] \notin {"exit", "done"}
    /\ IF pc[Bg] = "blocked"
       THEN /\ Begin(BgFlush("timer"))
            /\ UNCHANGED tickPending
       ELSE /\ ~tickPending
            /\ tickPending' = TRUE
            /\ ret' = NoReturn
            /\ UNCHANGED <<pc, op, toSend, attempt, lastErr, sends, cancelAt>>
    /\ solo' = FALSE
    /\ UNCHANGED <<others, batchSize, maxRetries, buffer, stopCh, doneCh, panicked,
                   nextId, swapCount, pushCount, closeConc>>

\* return after the final flush: the deferred ticker.Stop() and close(lt.doneCh)
BgExit ==
    /\ ~panicked
    /\ pc[Bg] = "exit"
    /\ doneCh' = "closed"
    /\ pc' = [pc EXCEPT ![Bg] = "done"]
    /\ ret' = NoReturn
    /\ UNCHANGED <<others, batchSize, maxRetries, buffer, stopCh, panicked, tickPending,
                   op, toSend, attempt, lastErr, sends, cancelAt, nextId,
                   swapCount, pushCount, solo, closeConc>>

\* ------------------------------------------------------ LokiTransport.Close
\* close(lt.stopCh): closing a closed channel panics
CloseStopCh(ch) == IF ch = "closed" THEN "panic" ELSE "closed"

\* the calls other callers have in progress
InProgress(p) == {op[q] : q \in {c \in Callers \ {p} : pc[c] # "idle"}}

CloseCall(p) ==
    /\ ~panicked
    /\ pc[p] = "idle"
    /\ IF CloseStopCh(stopCh) = "panic"
       THEN /\ panicked' = TRUE
            /\ ret' = NoReturn
            /\ UNCHANGED <<stopCh, pc, op, toSend, attempt, lastErr, sends,
                           cancelAt, closeConc>>
       ELSE /\ stopCh' = CloseStopCh(stopCh)
            /\ Begin((p :> <<"closeWait", "close", <<>>>>)
                     @@ (IF pc[Bg] = "blocked" THEN BgFlush("stop") ELSE <<>>))
            /\ closeConc' = InProgress(p)
            /\ UNCHANGED panicked
    /\ solo' = FALSE
    /\ UNCHANGED <<others, batchSize, maxRetries, buffer, doneCh, tickPending, nextId,
                   swapCount, pushCount>>

\* fault: Close not waiting for doneCh
DoneAssumed == stopCh = "closed"
\* case <-lt.doneCh is ready
DoneSignalled == doneCh = "closed"

\* select case <-lt.doneCh: return nil
CloseDone(p) ==
    /\ ~panicked
    /\ pc[p] = "closeWait"
    /\ DoneSignalled
    /\ Returns(p, 0, Nil, 0, Nil)
    /\ closeConc' = {}
    /\ UNCHANGED <<others, batchSize, maxRetries, buffer, stopCh, doneCh, panicked,
                   tickPending, nextId, swapCount, pushCount, solo>>

\* select case <-shutdownTimer.C: return the timeout error
CloseTimeout(p) ==
    /\ ~panicked
    /\ pc[p] = "closeWait"
    /\ Returns(p, 0, Nil, 0, TimeoutErr)
    /\ closeConc' = {}
    /\ UNCHANGED <<others, batchSize, maxRetries, buffer, stopCh, doneCh, panicked,
                   tickPending, nextId, swapCount, pushCount, solo>>

\* ------------------------------------------------------------------- Next
Next ==
    \/ \E p \in Callers, k \in WriteSizes : WriteCall(p, k)
    \/ \E p \in Flushers : FlushCall(p)
    \/ \E p \in Procs : FlushSwap(p)
    \/ \E p \in Procs : PushCall(p)
    \/ \E p \in Procs, ok \in BOOLEAN : SendEnd(p, ok)
    \/ \E p \in Procs : Backoff(p)
    \/ \E p \in Procs : CancelCtx(p)
    \/ BgSelect
    \/ BgBlock
    \/ TickFire
    \/ BgExit
    \/ \E p \in Closers : CloseCall(p)
    \/ \E p \in Closers : CloseDone(p)
    \/ \E p \in Closers : CloseTimeout(p)

\* A context that is done before the first send gives Push the returns of one
\* that is done during it: Next leaves CancelEarly to the sequential runs.
Spec == Init /\ [][Next]_vars

\* the select of the flusher takes its stop case
BgStop == BgSelect /\ op'[Bg] = "stop"

\* what the flusher does by itself, from its select to its return
Flusher ==
    \/ BgSelect
    \/ FlushSwap(Bg)
    \/ PushCall(Bg)
    \/ \E ok \in BOOLEAN : SendEnd(Bg, ok)
    \/ Backoff(Bg)
    \/ BgExit

\* The scheduler runs the flusher whenever it can take a step, and every send
\* of its Push returns; the ticker keeps firing; a select that finds the stop
\* case ready again and again takes it at last, since Go picks among the ready
\* cases at random.
Fairness ==
    /\ WF_vars(Flusher)
    /\ WF_vars(TickFire)
    /\ SF_vars(BgStop)

\* One goroutine writes and closes, nobody calls Flush: what is flushed is
\* flushed by the Writes that fill the buffer and by the flusher.
NextLive ==
    \/ WriteCall(SoloWriter, 1)
    \/ \E p \in {SoloWriter, Bg} : FlushSwap(p)
    \/ \E p \in {SoloWriter, Bg} : PushCall(p)
    \/ \E p \in {SoloWriter, Bg}, ok \in BOOLEAN : SendEnd(p, ok)
    \/ \E p \in {SoloWriter, Bg} : Backoff(p)
    \/ \E p \in {SoloWriter, Bg} : CancelCtx(p)
    \/ BgSelect
    \/ BgBlock
    \/ TickFire
    \/ BgExit
    \/ CloseCall(SoloWriter)
    \/ CloseDone(SoloWriter)
    \/ CloseTimeout(SoloWriter)

SpecLive == Init /\ [][NextLive]_vars /\ Fairness

\* One goroutine drives the transport and the client, as the unit tests do;
\* the flush interval is long enough that the ticker never fires.
NextSeq ==
    \/ WriteCall(Harness, 1)
    \/ FlushCall(Harness)
    \/ \E n \in 0..MaxDirect : PushDirect(Harness, n)
    \/ FlushSwap(Harness)
    \/ PushCall(Harness)
    \/ \E ok \in BOOLEAN : SendEnd(Harness, ok)
    \/ Backoff(Harness)
    \/ CancelCtx(Harness)
    \/ CancelEarly(Harness)
    \/ BgBlock

SpecSeq == InitSeq /\ [][NextSeq]_vars

\* ------------------------------------------- the buffer mutex, lock by lock
\* Write and Flush with lt.mu.Lock() and lt.mu.Unlock() as steps of their own:
\* a goroutine waits at "wlock" (Write) or "flush" (Flush) for the mutex and
\* runs its critical section at "wcrit" or "fcrit".

\* fault: the unlock deferred to the return of Flush
UnlockDeferred(holder) == holder
\* lt.mu.Unlock()
Unlock(holder) == "free"

\* a caller calls Write with one record
MuWriteCall(p) ==
    /\ pc[p] = "idle"
    /\ nextId <= MaxRecords
    /\ Begin(p :> <<"wlock", "write", <<>>>>)
    /\ UNCHANGED <<others, batchSize, maxRetries, buffer, stopCh, doneCh, panicked,
                   tickPending, nextId, swapCount, pushCount, solo, closeConc>>

\* lt.mu.Lock() returns: the mutex was free
MuLock(p) ==
    /\ pc[p] \in {"wlock", "flush"}
    /\ mu = "free"
    /\ mu' = p
    /\ pc' = [pc EXCEPT ![p] = IF pc[p] = "wlock" THEN "wcrit" ELSE "fcrit"]
    /\ ret' = NoReturn
    /\ UNCHANGED <<aside, batchSize, maxRetries, buffer, stopCh, doneCh, panicked,
                   tickPending, op, toSend, attempt, lastErr, sends, cancelAt,
                   nextId, swapCount, pushCount, solo, closeConc>>

\* Write's critical section: append, shouldFlush, unlock; then Flush or return nil
MuWriteBody(p) ==
    /\ pc[p] = "wcrit"
    /\ mu = p
    /\ LET buf == AppendEntries(buffer, Entries(1))
       IN /\ buffer' = buf
          /\ toSend' = [q \in Procs |-> AfterAppend(q, buf)]
          /\ IF ShouldFlush(buf)
             THEN /\ pc' = [pc EXCEPT ![p] = "flush"]
                  /\ ret' = NoReturn
                  /\ UNCHANGED op
             ELSE /\ pc' = [pc EXCEPT ![p] = "idle"]
                  /\ op' = [op EXCEPT ![p] = "none"]
                  /\ ret' = [NoReturn EXCEPT !.by = p, !.op = "write"]
    /\ mu' = Unlock(p)
    /\ nextId' = nextId + 1
    /\ UNCHANGED <<aside, batchSize, maxRetries, stopCh, doneCh, panicked, tickPending,
                   attempt, lastErr, sends, cancelAt, swapCount, pushCount,
                   solo, closeConc>>

\* Flush's critical section: the empty check or the swap, and the unlock
MuFlushBody(p) ==
    /\ pc[p] = "fcrit"
    /\ mu = p
    /\ IF FlushIsNoop(buffer)
       THEN /\ Returns(p, 0, Nil, 0, Nil)
            /\ UNCHANGED <<buffer, swapCount>>
       ELSE /\ toSend' = [toSend EXCEPT ![p] = TakeBuffer(buffer)]
            /\ buffer' = NewBuffer(buffer)
            /\ swapCount' = Counted(swapCount, TakeBuffer(buffer))
            /\ pc' = [pc EXCEPT ![p] = "push"]
            /\ ret' = NoReturn
            /\ UNCHANGED <<op, attempt, lastErr, sends, cancelAt>>
    /\ mu' = Unlock(p)
    /\ UNCHANGED <<aside, batchSize, maxRetries, stopCh, doneCh, panicked, tickPending,
                   nextId, pushCount, solo, closeConc>>

\* the holder of the mutex leaves its critical section
MuRelease(p) == MuWriteBody(p) \/ MuFlushBody(p)

NextMu ==
    \/ \E p \in Callers : MuWriteCall(p)
    \/ \E p \in Flushers : FlushCall(p)
    \/ \E p \in Procs : MuLock(p)
    \/ \E p \in Callers : MuWriteBody(p)
    \/ \E p \in Procs : MuFlushBody(p)
    \/ \E p \in Procs : PushCall(p)
    \/ \E p \in Procs, ok \in BOOLEAN : SendEnd(p, ok)
    \/ \E p \in Procs : Backoff(p)
    \/ BgSelect
    \/ BgBlock
    \/ TickFire

SpecMu == Init /\ [][NextMu]_vars

\* ------------------------------------------------- RateLimiter, step by step
\* a goroutine calls Allow: a nil limiter admits at once
RlAllowCall(c) ==
    /\ rlPc[c] = "idle"
    /\ tally.allows < MaxAllows
    /\ tally' = [tally EXCEPT !.allows = @ + 1]
    /\ IF rateLimiter = "nil"
       THEN /\ rlRet' = [NoRlRet EXCEPT !.by = c, !.op = "allow", !.allowed = TRUE]
            /\ UNCHANGED rlPc
       ELSE /\ rlPc' = [rlPc EXCEPT ![c] = "allowLock"]
            /\ rlRet' = NoRlRet
    /\ UNCHANGED <<besideLimiter, rateLimiter, maxLogsPerSecond, samplingRatio, tokens,
                   lastRefill, droppedCount, sampledCount, rlMu, clock, rlStats, burst>>

\* rl.mu.Lock() returns
RlLock(c) ==
    /\ rlPc[c] \in {"allowLock", "statsLock"}
    /\ MutexFree(rlMu)
    /\ rlMu' = c
    /\ rlPc' = [rlPc EXCEPT ![c] = IF rlPc[c] = "allowLock" THEN "allow" ELSE "statsRead"]
    /\ rlRet' = NoRlRet
    /\ UNCHANGED <<besideLimiter, rateLimiter, maxLogsPerSecond, samplingRatio, tokens,
                   lastRefill, droppedCount, sampledCount, clock, rlStats, burst, tally>>

\* Allow under the mutex: refill, then a token, a sample or a drop; the deferred unlock
RlAllowBody(c) ==
    /\ rlPc[c] = "allow"
    /\ LET tok == Refilled(tokens, clock - lastRefill)
           k == BurstIndex
       IN /\ lastRefill' = clock
          /\ burst' = IF k = 0 THEN 0 - 1 ELSE k
          /\ IF HasToken(tok)
             THEN /\ tokens' = tok - TokenParts
                  /\ rlRet' = [NoRlRet EXCEPT !.by = c, !.op = "allow", !.allowed = TRUE, !.k = k]
                  /\ UNCHANGED <<droppedCount, sampledCount, tally>>
             ELSE \E rng \in RngValues :
                    /\ tokens' = tok
                    /\ IF Samples(rng)
                       THEN /\ sampledCount' = sampledCount + 1
                            /\ tally' = [tally EXCEPT !.sampled = @ + 1]
                            /\ rlRet' = [NoRlRet EXCEPT !.by = c, !.op = "allow", !.allowed = TRUE,
                                                        !.sampled = TRUE, !.k = k]
                            /\ UNCHANGED droppedCount
                       ELSE /\ droppedCount' = droppedCount + 1
                            /\ tally' = [tally EXCEPT !.dropped = @ + 1]
                            /\ rlRet' = [NoRlRet EXCEPT !.by = c, !.op = "allow", !.k = k]
                            /\ UNCHANGED sampledCount
    /\ rlMu' = "free"
    /\ rlPc' = [rlPc EXCEPT ![c] = "idle"]
    /\ UNCHANGED <<besideLimiter, rateLimiter, maxLogsPerSecond, samplingRatio, clock, rlStats>>

\* a goroutine calls GetAndResetStats: a nil limiter reports 0, 0
RlStatsCall(c) ==
    /\ rlPc[c] = "idle"
    /\ IF rateLimiter = "nil"
       THEN /\ rlRet' = [NoRlRet EXCEPT !.by = c, !.op = "stats"]
            /\ UNCHANGED rlPc
       ELSE /\ rlPc' = [rlPc EXCEPT ![c] = "statsLock"]
            /\ rlRet' = NoRlRet
    /\ UNCHANGED <<besideLimiter, rateLimiter, maxLogsPerSecond, samplingRatio, tokens,
                   lastRefill, droppedCount, sampledCount, rlMu, clock, rlStats, burst, tally>>

\* dropped = rl.droppedCount; sampled = rl.sampledCount
RlStatsRead(c) ==
    /\ rlPc[c] = "statsRead"
    /\ rlStats' = [rlStats EXCEPT ![c] = <<droppedCount, sampledCount>>]
    /\ rlPc' = [rlPc EXCEPT ![c] = "statsReset"]
    /\ rlRet' = NoRlRet
    /\ UNCHANGED <<besideLimiter, rateLimiter, maxLogsPerSecond, samplingRatio, tokens,
                   lastRefill, droppedCount, sampledCount, rlMu, clock, burst, tally>>

\* the counters zeroed, the deferred unlock, return dropped, sampled
RlStatsReset(c) ==
    /\ rlPc[c] = "statsReset"
    /\ droppedCount' = 0
    /\ sampledCount' = 0
    /\ rlMu' = "free"
    /\ rlPc' = [rlPc EXCEPT ![c] = "idle"]
    /\ rlStats' = [rlStats EXCEPT ![c] = <<0, 0>>]
    /\ rlRet' = [NoRlRet EXCEPT !.by = c, !.op = "stats",
                                !.dropped = rlStats[c][1], !.nsampled = rlStats[c][2]]
    /\ tally' = [tally EXCEPT !.repDropped = @ + rlStats[c][1],
                              !.repSampled = @ + rlStats[c][2]]
    /\ UNCHANGED <<besideLimiter, rateLimiter, maxLogsPerSecond, samplingRatio, tokens,
                   lastRefill, clock, burst>>

\* time passes
ClockTick ==
    /\ clock < MaxClock
    /\ clock' = clock + 1
    /\ rlRet' = NoRlRet
    /\ UNCHANGED <<besideLimiter, rateLimiter, maxLogsPerSecond, samplingRatio, tokens,
                   lastRefill, droppedCount, sampledCount, rlMu, rlPc, rlStats, burst, tally>>

\* the transport idle, and a limiter of any configuration
InitRL ==
    /\ batchSize = MaxBatchSize
    /\ maxRetries = MaxRetriesCfg
    /\ pc = [q \in Procs |-> IF q = Bg THEN "loop" ELSE "idle"]
    /\ InitCommon
    /\ \E rate \in RateCfgs, ratio \in RatioCfgs : NewRateLimiter(rate, ratio)
    /\ TrackerOff
    /\ LoggerOff
    /\ KeyOff
    /\ LateOff

NextRL ==
    \/ \E c \in Allowers : RlAllowCall(c)
    \/ \E c \in RlUsers : RlLock(c)
    \/ \E c \in Allowers : RlAllowBody(c)
    \/ \E c \in Reporters : RlStatsCall(c)
    \/ \E c \in Reporters : RlStatsRead(c)
    \/ \E c \in Reporters : RlStatsReset(c)
    \/ ClockTick

SpecRL == InitRL /\ [][NextRL]_vars

\* ---------------------------------------------------- trackLabelCardinality
\* one call, under cardinalityMu from the first line to the return
Track(key, value) ==
    /\ tracks < MaxTracks
    /\ tracks' = tracks + 1
    /\ IF TrackingOff
       THEN /\ trackRet' = [NoTrack EXCEPT !.key = key]
            /\ UNCHANGED <<labelCardinalityMap, warnings>>
       ELSE LET seen == Recorded(labelCardinalityMap[key], value)
                uniqueCount == Cardinality(seen)
                args == <<key, uniqueCount, maxLabelCardinality>>
            IN /\ labelCardinalityMap' = [labelCardinalityMap EXCEPT ![key] = seen]
               /\ warnings' = IF ShouldWarn(uniqueCount)
                              THEN [warnings EXCEPT ![key] = Append(@, args)]
                              ELSE warnings
               /\ trackRet' = [key |-> key,
                               before |-> Cardinality(labelCardinalityMap[key]),
                               after |-> uniqueCount,
                               warned |-> ShouldWarn(uniqueCount),
                               args |-> IF ShouldWarn(uniqueCount) THEN args ELSE <<>>]
    /\ UNCHANGED <<besideTracker, maxLabelCardinality>>

\* the transport idle, no limiter, a tracker of any threshold
InitTrack ==
    /\ batchSize = MaxBatchSize
    /\ maxRetries = MaxRetriesCfg
    /\ pc = [q \in Procs |-> IF q = Bg THEN "loop" ELSE "idle"]
    /\ InitCommon
    /\ LimiterOff
    /\ \E threshold \in 0..MaxThreshold : NewTracker(threshold)
    /\ LoggerOff
    /\ KeyOff
    /\ LateOff

NextTrack == \E key \in LabelKeys, value \in LabelValues : Track(key, value)

SpecTrack == InitTrack /\ [][NextTrack]_vars

\* ------------------------------------------------------ Logger, step by step
\* The transports are seen from the Logger: a call of Write, Flush or Close
\* returns nil or an error, and the Loki transport's background flusher makes
\* its own Flush calls.

\* the Logger's fields and configuration, which no call changes
loggerCfg == <<logLevel, alwaysLogLevels, errorHandler, transports>>

\* the Loki transport is among the transports
HasLoki == \E i \in DOMAIN transports : transports[i] = "loki"

\* the event of the call of frame f returning err
LgReturn(g, f, err) ==
    [by |-> g, op |-> f.op, level |-> f.level, admitted |-> TRUE, trace |-> f.trace,
     fails |-> f.fails, cbs |-> f.cbs, held |-> f.held,
     allowCalled |-> f.allowCalled, touched |-> f.touched, err |-> err]

\* l.rateLimiter.Allow(), from its Lock to its return, nobody else at the limiter
Allow(g) ==
    /\ MutexFree(rlMu)
    /\ LET tok == Refilled(tokens, clock - lastRefill)
           k == BurstIndex
       IN /\ lastRefill' = clock
          /\ burst' = IF k = 0 THEN 0 - 1 ELSE k
          /\ IF HasToken(tok)
             THEN /\ tokens' = tok - TokenParts
                  /\ rlRet' = [NoRlRet EXCEPT !.by = g, !.op = "allow", !.allowed = TRUE, !.k = k]
                  /\ tally' = [tally EXCEPT !.allows = @ + 1]
                  /\ UNCHANGED <<droppedCount, sampledCount>>
             ELSE \E rng \in RngValues :
                    /\ tokens' = tok
                    /\ IF Samples(rng)
                       THEN /\ sampledCount' = sampledCount + 1
                            /\ tally' = [tally EXCEPT !.allows = @ + 1, !.sampled = @ + 1]
                            /\ rlRet' = [NoRlRet EXCEPT !.by = g, !.op = "allow", !.allowed = TRUE,
                                                        !.sampled = TRUE, !.k = k]
                            /\ UNCHANGED droppedCount
                       ELSE /\ droppedCount' = droppedCount + 1
                            /\ tally' = [tally EXCEPT !.allows = @ + 1, !.dropped = @ + 1]
                            /\ rlRet' = [NoRlRet EXCEPT !.by = g, !.op = "allow", !.k = k]
                            /\ UNCHANGED sampledCount
    /\ UNCHANGED <<rateLimiter, maxLogsPerSecond, samplingRatio, rlMu, clock, rlPc, rlStats>>

\* the limiter asked by a log call of the goroutine g
AllowInline(g) ==
    /\ tally.allows < MaxLogAllows
    /\ Allow(g)

\* labels["app"] = l.config.AppName; labels["level"] = level.String()
LabelsOf(level) == [k \in LabelKeys |-> IF k = "app" THEN "app" ELSE level]

\* for k, v := range labels { l.trackLabelCardinality(k, v) }: the keys differ,
\* so the order of the map's iteration makes no difference
TrackLabels(given) ==
    IF TrackingOff
    THEN UNCHANGED trackerVars
    ELSE /\ tracks < MaxTracks
         /\ tracks' = tracks + Cardinality(DOMAIN given)
         /\ labelCardinalityMap' =
               [k \in LabelKeys |-> Recorded(labelCardinalityMap[k], given[k])]
         /\ warnings' =
               [k \in LabelKeys |->
                  LET uniqueCount == Cardinality(Recorded(labelCardinalityMap[k],
                                                          given[k]))
                  IN IF ShouldWarn(uniqueCount)
                     THEN Append(warnings[k], <<k, uniqueCount, maxLabelCardinality>>)
                     ELSE warnings[k]]
         /\ trackRet' = NoTrack
         /\ UNCHANGED maxLabelCardinality

\* fault: the limiter's verdict ignored
DroppedNever(allowed) == FALSE
\* allowed, _ := l.rateLimiter.Allow(); if !allowed { return }
Dropped(allowed) == ~allowed

\* log, up to l.mu.RLock(): the level filter, the exempt levels, the limiter,
\* the labels and their tracking
LogCall(g, level) ==
    /\ frame[g].pc = "idle"
    /\ IF ~IsEnabled(level, logLevel)
       THEN /\ lgRet' = [NoLgRet EXCEPT !.by = g, !.op = "log", !.level = level]
            /\ UNCHANGED <<frame, limiterVars, trackerVars>>
       ELSE IF ~AlwaysLog(level) /\ rateLimiter # "nil"
       THEN /\ AllowInline(g)
            /\ LET touched == <<tokens', droppedCount', sampledCount'>>
                                 # <<tokens, droppedCount, sampledCount>>
               IN IF ~Dropped(rlRet'.allowed)
                  THEN /\ TrackLabels(LabelsOf(level))
                       /\ frame' = [frame EXCEPT ![g] =
                                      [NoFrame EXCEPT !.pc = "rlock", !.op = "log",
                                                      !.method = "Write", !.level = level,
                                                      !.allowCalled = TRUE,
                                                      !.touched = touched]]
                       /\ lgRet' = NoLgRet
                  ELSE /\ lgRet' = [NoLgRet EXCEPT !.by = g, !.op = "log", !.level = level,
                                                   !.allowCalled = TRUE, !.touched = touched]
                       /\ UNCHANGED <<frame, trackerVars>>
       ELSE /\ TrackLabels(LabelsOf(level))
            /\ frame' = [frame EXCEPT ![g] =
                           [NoFrame EXCEPT !.pc = "rlock", !.op = "log",
                                           !.method = "Write", !.level = level]]
            /\ lgRet' = NoLgRet
            /\ UNCHANGED limiterVars
    /\ UNCHANGED <<core, mu, keyVars, late, loggerCfg, loggerMu, stopSignalled, bgDone,
                   closeCalled>>

\* FlushContext is called
FlushContextCall(g) ==
    /\ frame[g].pc = "idle"
    /\ frame' = [frame EXCEPT ![g] =
                   [NoFrame EXCEPT !.pc = "rlock", !.op = "flush", !.method = "Flush"]]
    /\ lgRet' = NoLgRet
    /\ UNCHANGED <<besideLogger, limiterVars, loggerCfg, loggerMu, stopSignalled, bgDone,
                   closeCalled>>

\* CloseContext is called: flushErr := l.FlushContext(ctx) comes first
CloseContextCall(g) ==
    /\ frame[g].pc = "idle"
    /\ ~closeCalled
    /\ closeCalled' = TRUE
    /\ frame' = [frame EXCEPT ![g] =
                   [NoFrame EXCEPT !.pc = "rlock", !.op = "close", !.method = "Flush"]]
    /\ lgRet' = NoLgRet
    /\ UNCHANGED <<besideLogger, limiterVars, loggerCfg, loggerMu, stopSignalled, bgDone>>

\* l.mu.RLock() returns
LgRLock(g) ==
    /\ frame[g].pc = "rlock"
    /\ loggerMu.writer = "none"
    /\ loggerMu' = [loggerMu EXCEPT !.readers = @ \cup {g}]
    /\ frame' = [frame EXCEPT ![g].pc = "loop", ![g].i = 1]
    /\ lgRet' = NoLgRet
    /\ UNCHANGED <<besideLogger, limiterVars, loggerCfg, stopSignalled, bgDone, closeCalled>>

\* l.mu.Lock() returns
LgLock(g) ==
    /\ frame[g].pc = "wlock"
    /\ loggerMu.writer = "none"
    /\ loggerMu.readers = {}
    /\ loggerMu' = [loggerMu EXCEPT !.writer = g]
    /\ frame' = [frame EXCEPT ![g].pc = "loop", ![g].i = 1, ![g].method = "Close"]
    /\ lgRet' = NoLgRet
    /\ UNCHANGED <<besideLogger, limiterVars, loggerCfg, stopSignalled, bgDone, closeCalled>>

\* fault: the error kept is the last one
AfterHandlerLast(f) ==
    [f EXCEPT !.pc = "loop",
              !.i = NextIndex(f.i, f.err),
              !.firstErr = IF f.method # "Write" THEN f.err ELSE @,
              !.err = Nil]
\* after the error handling of one iteration: firstErr, the next transport
AfterHandler(f) ==
    [f EXCEPT !.pc = "loop",
              !.i = NextIndex(f.i, f.err),
              !.firstErr = IF f.method # "Write" /\ @ = Nil THEN f.err ELSE @,
              !.err = Nil]

\* the call of f.method on the transport f.i has returned e
AfterCall(f, e) ==
    LET called == [f EXCEPT !.trace = Append(@, <<f.method, transports[f.i]>>)]
        failed == [called EXCEPT !.fails = Append(@, <<transports[f.i], e>>), !.err = e]
    IN IF e = Nil THEN [called EXCEPT !.i = NextIndex(f.i, e)]
       ELSE IF errorHandler # "nil" THEN [failed EXCEPT !.pc = "handler"]
       ELSE AfterHandler(failed)

\* t.Write, t.Flush or t.Close of the next transport, run to its return
TransportCall(g, fails) ==
    /\ frame[g].pc = "loop"
    /\ frame[g].i <= Len(transports)
    /\ ~(frame[g].method = "Close" /\ transports[frame[g].i] = "loki")
    /\ fails => CanFail(transports[frame[g].i], frame[g].method)
    /\ frame' = [frame EXCEPT ![g] =
                   AfterCall(@, IF fails THEN Failure(@.method, @.i) ELSE Nil)]
    /\ lgRet' = NoLgRet
    /\ UNCHANGED <<besideLogger, limiterVars, loggerCfg, loggerMu, stopSignalled, bgDone,
                   closeCalled>>

\* the Loki transport's Close: close(lt.stopCh), then the wait
LokiCloseCall(g) ==
    /\ frame[g].pc = "loop"
    /\ frame[g].i <= Len(transports)
    /\ frame[g].method = "Close" /\ transports[frame[g].i] = "loki"
    /\ stopSignalled' = TRUE
    /\ frame' = [frame EXCEPT ![g].pc = "closing"]
    /\ lgRet' = NoLgRet
    /\ UNCHANGED <<besideLogger, limiterVars, loggerCfg, loggerMu, bgDone, closeCalled>>

\* the Loki transport's Close returns: nil on doneCh, an error on the timeout
LokiCloseReturn(g, timedOut) ==
    /\ frame[g].pc = "closing"
    /\ timedOut \/ bgDone
    /\ frame' = [frame EXCEPT ![g] =
                   AfterCall([@ EXCEPT !.pc = "loop"],
                             IF timedOut THEN Failure("Close", @.i) ELSE Nil)]
    /\ lgRet' = NoLgRet
    /\ UNCHANGED <<besideLogger, limiterVars, loggerCfg, loggerMu, stopSignalled, bgDone,
                   closeCalled>>

\* l.config.ErrorHandler(t.Name(), err)
ErrorHandlerCall(g) ==
    /\ frame[g].pc = "handler"
    /\ frame' = [frame EXCEPT ![g] =
                   AfterHandler([@ EXCEPT !.cbs = Append(@, <<transports[frame[g].i], frame[g].err>>),
                                          !.held = @ \cup HeldBy(g)])]
    /\ lgRet' = NoLgRet
    /\ UNCHANGED <<besideLogger, limiterVars, loggerCfg, loggerMu, stopSignalled, bgDone,
                   closeCalled>>

\* the loop over the transports is over: the deferred unlock, and the return,
\* or, in CloseContext after its FlushContext, on to l.mu.Lock()
LoopEnd(g) ==
    /\ frame[g].pc = "loop"
    /\ frame[g].i > Len(transports)
    /\ LET f == frame[g]
       IN IF f.op = "close" /\ f.method = "Flush"
          THEN /\ loggerMu' = [loggerMu EXCEPT !.readers = @ \ {g}]
               /\ frame' = [frame EXCEPT ![g].pc = "wlock", ![g].flushErr = f.firstErr,
                                          ![g].firstErr = Nil]
               /\ lgRet' = NoLgRet
          ELSE /\ loggerMu' = [readers |-> loggerMu.readers \ {g},
                               writer |-> IF loggerMu.writer = g THEN "none"
                                          ELSE loggerMu.writer]
               /\ frame' = [frame EXCEPT ![g] = NoFrame]
               /\ lgRet' = LgReturn(g, f, IF f.op = "close" /\ f.flushErr # Nil
                                          THEN f.flushErr ELSE f.firstErr)
    /\ UNCHANGED <<besideLogger, limiterVars, loggerCfg, stopSignalled, bgDone, closeCalled>>

\* the background flusher's doFlush, on a tick or on stopCh: _ = lt.Flush(ctx)
DoFlush(trigger, fails) ==
    /\ HasLoki
    /\ ~bgDone
    /\ trigger = "stop" => stopSignalled
    /\ bgDone' = (trigger = "stop")
    /\ lgRet' = [NoLgRet EXCEPT !.by = Bg, !.op = trigger, !.admitted = TRUE,
                                !.trace = <<<<"Flush", "loki">>>>,
                                !.fails = IF fails THEN <<<<"loki", Failure("Flush", 0)>>>>
                                          ELSE <<>>]
    /\ UNCHANGED <<besideLogger, limiterVars, loggerCfg, loggerMu, frame, stopSignalled,
                   closeCalled>>

\* the transport idle, a Logger of any configuration, with or without a limiter
InitLog ==
    /\ batchSize = MaxBatchSize
    /\ maxRetries = MaxRetriesCfg
    /\ pc = [q \in Procs |-> IF q = Bg THEN "loop" ELSE "idle"]
    /\ InitCommon
    /\ \E rate \in {0, 1} : NewRateLimiter(rate, 1)
    /\ TrackerOff
    /\ \E level \in LogLevelCfgs, always \in AlwaysCfgs, handler \in {"nil", "set"},
          list \in TransportLists : NewLogger(level, always, handler, list)
    /\ KeyOff
    /\ LateOff

NextLog ==
    \/ \E g \in LogWriters, level \in LoggedLevels : LogCall(g, level)
    \/ \E g \in LogFlushers : FlushContextCall(g)
    \/ \E g \in LogClosers : CloseContextCall(g)
    \/ \E g \in Loggers : LgRLock(g)
    \/ \E g \in Loggers : LgLock(g)
    \/ \E g \in Loggers, fails \in BOOLEAN : TransportCall(g, fails)
    \/ \E g \in Loggers : LokiCloseCall(g)
    \/ \E g \in Loggers, timedOut \in BOOLEAN : LokiCloseReturn(g, timedOut)
    \/ \E g \in Loggers : ErrorHandlerCall(g)
    \/ \E g \in Loggers : LoopEnd(g)
    \/ \E trigger \in {"timer", "stop"}, fails \in BOOLEAN : DoFlush(trigger, fails)

SpecLog == InitLog /\ [][NextLog]_vars

\* a Logger that tracks the cardinality of its labels, with or without a limiter
InitAdmit ==
    /\ batchSize = MaxBatchSize
    /\ maxRetries = MaxRetriesCfg
    /\ pc = [q \in Procs |-> IF q = Bg THEN "loop" ELSE "idle"]
    /\ InitCommon
    /\ \E rate \in {0, 1} : NewRateLimiter(rate, 1)
    /\ \E threshold \in 1..MaxThreshold : NewTracker(threshold)
    /\ \E level \in LogLevelCfgs, always \in AlwaysCfgs :
          NewLogger(level, always, "nil", <<"console", "loki">>)
    /\ KeyOff
    /\ LateOff

\* the log calls of one goroutine, each to its return
NextAdmit ==
    \/ \E g \in LogWriters, level \in LoggedLevels : LogCall(g, level)
    \/ \E g \in LogWriters : LgRLock(g)
    \/ \E g \in LogWriters, fails \in BOOLEAN : TransportCall(g, fails)
    \/ \E g \in LogWriters : LoopEnd(g)

SpecAdmit == InitAdmit /\ [][NextAdmit]_vars

\* --------------------------------------------------------------- WithLabels
\* l.WithLabels(given) on the Logger object h
WithLabelsCall(h, given) ==
    /\ Len(loggerObjs) < MaxHandles
    /\ LET parentMap == loggerObjs[h].labels
           id == ChildMap(parentMap)
           made == IF id > Len(mapObjs) THEN Append(mapObjs, NoLabels) ELSE mapObjs
           copied == [made EXCEPT ![id] = PutAll(@, mapObjs[parentMap],
                                                 DOMAIN mapObjs[parentMap])]
           added == [copied EXCEPT ![id] = PutAll(@, given, DOMAIN given)]
       IN /\ mapObjs' = added
          /\ loggerObjs' = Append(loggerObjs,
                                  [labels |-> id,
                                   transports |-> loggerObjs[h].transports,
                                   made |-> added[id]])
          /\ labelRet' = [op |-> "WithLabels", parent |-> h,
                          child |-> Len(loggerObjs) + 1, given |-> given,
                          before |-> mapObjs[parentMap], labels |-> added[id]]
    /\ UNCHANGED besideHandles

\* log through the Logger object h: app, level, then the configuration's labels
LogLabels(h, level) ==
    /\ LET own == mapObjs[loggerObjs[h].labels]
           base == Put(Put(NoLabels, "app", "test-app"), "level", level)
       IN labelRet' = [op |-> "log", parent |-> h, child |-> 0, given |-> NoLabels,
                       before |-> own, labels |-> PutAll(base, own, DOMAIN own)]
    /\ UNCHANGED <<besideHandles, loggerObjs, mapObjs>>

\* the transport idle, and one Logger with any labels
InitHandles ==
    /\ batchSize = MaxBatchSize
    /\ maxRetries = MaxRetriesCfg
    /\ pc = [q \in Procs |-> IF q = Bg THEN "loop" ELSE "idle"]
    /\ InitCommon
    /\ LimiterOff /\ TrackerOff /\ LoggerOff /\ KeyOff
    /\ \E m \in HandleMaps : NewRoot(m)
    /\ SendOff /\ LineOff /\ ReporterOff /\ TailOff

NextHandles ==
    \/ \E h \in DOMAIN loggerObjs, given \in HandleMaps : WithLabelsCall(h, given)
    \/ \E h \in DOMAIN loggerObjs, level \in LoggedLevels : LogLabels(h, level)

SpecHandles == InitHandles /\ [][NextHandles]_vars

\* ------------------------------------------------------------ formatLogLine
\* one call of c.formatLogLine(entry); the trailing newline is cut off
FormatLogLineCall ==
    /\ ~lineRet.called
    /\ lineRet' = IF EncodeFails(LineData(entry))
                  THEN [called |-> TRUE, line |-> <<>>, newline |-> FALSE, failed |-> TRUE]
                  ELSE [called |-> TRUE, line |-> Encode(LineData(entry)),
                        newline |-> FALSE, failed |-> FALSE]
    /\ UNCHANGED <<besideLine, entry>>

\* the transport idle, and any record
InitLine ==
    /\ batchSize = MaxBatchSize
    /\ maxRetries = MaxRetriesCfg
    /\ pc = [q \in Procs |-> IF q = Bg THEN "loop" ELSE "idle"]
    /\ InitCommon
    /\ LimiterOff /\ TrackerOff /\ LoggerOff /\ KeyOff
    /\ HandlesOff /\ SendOff /\ ReporterOff /\ TailOff
    /\ \E e \in Entries4Line : NewEntry(e)

NextLine == FormatLogLineCall

SpecLine == InitLine /\ [][NextLine]_vars

\* --------------------------------------------------------------------- send
\* one call of c.send
SendCall ==
    /\ ~sendRet.called
    /\ sendRet' = [called |-> TRUE,
                   read |-> IF ~resp.doFails /\ BadStatus(resp.status)
                            THEN ReadAll(resp, maxErrorBodySize).bytes ELSE <<>>,
                   readErr |-> /\ ~resp.doFails
                               /\ BadStatus(resp.status)
                               /\ ReadAll(resp, maxErrorBodySize).err,
                   err |-> send(resp)]
    /\ UNCHANGED <<besideSend, resp>>

\* the transport idle, and a request with any answer
InitSend ==
    /\ batchSize = MaxBatchSize
    /\ maxRetries = MaxRetriesCfg
    /\ pc = [q \in Procs |-> IF q = Bg THEN "loop" ELSE "idle"]
    /\ InitCommon
    /\ LimiterOff /\ TrackerOff /\ LoggerOff /\ KeyOff
    /\ HandlesOff /\ LineOff /\ ReporterOff /\ TailOff
    /\ \E r \in Answers : NewRequest(r)

NextSend == SendCall

SpecSend == InitSend /\ [][NextSend]_vars

\* --------------------------------------------------- rateLimitStatsReporter
\* fault: the handler called at every tick
ReportableAlways(dropped, sampled) == TRUE
\* if dropped > 0 || sampled > 0 { l.config.RateLimitHandler(dropped, sampled) }
Reportable(dropped, sampled) == dropped > 0 \/ sampled > 0

\* the reporter runs until it has closed rateLimitDoneCh
ReporterRuns == rateLimitDoneCh = "open"

\* a log call asks the limiter, which admits, samples or drops it
RepAllow ==
    /\ rateLimiter = "set"
    /\ tally.allows < MaxRepAllows
    /\ Allow("g1")
    /\ repRet' = NoRepRet
    /\ UNCHANGED <<besideReporter, rateLimitStopCh, rateLimitDoneCh>>

\* time passes for the limiter's refill
RepClock ==
    /\ clock < MaxClock
    /\ clock' = clock + 1
    /\ rlRet' = NoRlRet
    /\ repRet' = NoRepRet
    /\ UNCHANGED <<besideReporter, rateLimitStopCh, rateLimitDoneCh, rateLimiter,
                   maxLogsPerSecond, samplingRatio, tokens, lastRefill, droppedCount,
                   sampledCount, rlMu, rlPc, rlStats, burst, tally>>

\* GetAndResetStats and the handler, on a tick or on the stop signal
Report(on) ==
    /\ MutexFree(rlMu)
    /\ repRet' = [on |-> on, dropped |-> droppedCount, sampled |-> sampledCount,
                  called |-> Reportable(droppedCount, sampledCount),
                  pending |-> <<tally.dropped - tally.repDropped,
                                tally.sampled - tally.repSampled>>]
    /\ droppedCount' = 0
    /\ sampledCount' = 0
    /\ tally' = [tally EXCEPT !.repDropped = @ + droppedCount,
                              !.repSampled = @ + sampledCount]
    /\ rlRet' = [NoRlRet EXCEPT !.by = "rep", !.op = "stats",
                                !.dropped = droppedCount, !.nsampled = sampledCount]
    /\ UNCHANGED <<besideReporter, rateLimitStopCh, rateLimiter, maxLogsPerSecond,
                   samplingRatio, tokens, lastRefill, rlMu, clock, rlPc, rlStats, burst>>

\* case <-ticker.C
RepTick ==
    /\ ReporterRuns
    /\ Report("tick")
    /\ UNCHANGED rateLimitDoneCh

\* case <-l.rateLimitStopCh: the final report, return, the deferred close
RepStop ==
    /\ ReporterRuns
    /\ rateLimitStopCh = "closed"
    /\ Report("stop")
    /\ rateLimitDoneCh' = "closed"

\* CloseContext: close(l.rateLimitStopCh) unless it is closed already
RepClose ==
    /\ rateLimitStopCh = "open"
    /\ rateLimitStopCh' = "closed"
    /\ repRet' = NoRepRet
    /\ rlRet' = NoRlRet
    /\ UNCHANGED <<besideReporter, rateLimitDoneCh, rateLimiter, maxLogsPerSecond,
                   samplingRatio, tokens, lastRefill, droppedCount, sampledCount,
                   rlMu, clock, rlPc, rlStats, burst, tally>>

\* New with a RateLimitHandler: the reporter starts if the limiter is enabled
InitRep ==
    /\ batchSize = MaxBatchSize
    /\ maxRetries = MaxRetriesCfg
    /\ pc = [q \in Procs |-> IF q = Bg THEN "loop" ELSE "idle"]
    /\ InitCommon
    /\ \E rate \in RateCfgs, ratio \in RatioCfgs : NewRateLimiter(rate, ratio)
    /\ TrackerOff /\ LoggerOff /\ KeyOff
    /\ HandlesOff /\ SendOff /\ LineOff /\ TailOff
    /\ NewReporter(rateLimiter = "set")

NextRep ==
    \/ RepAllow
    \/ RepClock
    \/ RepTick
    \/ RepStop
    \/ RepClose

SpecRep == InitRep /\ [][NextRep]_vars

\* ------------------------------------------------------------- CloseContext
\* close of a closed channel: the program is gone
ClosePanicked == \E g \in LogHandles : closePc[g] = "panic"

\* the reporter and the limiter keep what they have
CloseKeeps ==
    /\ repRet' = NoRepRet
    /\ rlRet' = NoRlRet
    /\ UNCHANGED <<besideClose, rateLimitDoneCh, rateLimiter, maxLogsPerSecond,
                   samplingRatio, tokens, lastRefill, droppedCount, sampledCount,
                   rlMu, clock, rlPc, rlStats, burst, tally>>

\* select { case <-l.rateLimitStopCh: default: ... }: the channel is read, no
\* lock held; a Logger may be closed again after its CloseContext returned
CloseSelect(g) ==
    /\ ~ClosePanicked
    /\ closePc[g] \in {"idle", "done"}
    /\ closePc' = [closePc EXCEPT ![g] = IF rateLimitStopCh = "closed"
                                         THEN "wait" ELSE "close"]
    /\ UNCHANGED <<rateLimitStopCh, stopCloses>>
    /\ CloseKeeps

\* default: close(l.rateLimitStopCh), which panics on a closed channel
CloseStop(g) ==
    /\ ~ClosePanicked
    /\ closePc[g] = "close"
    /\ stopCloses' = stopCloses + 1
    /\ rateLimitStopCh' = "closed"
    /\ closePc' = [closePc EXCEPT ![g] = IF rateLimitStopCh = "closed"
                                         THEN "panic" ELSE "wait"]
    /\ CloseKeeps

\* <-l.rateLimitDoneCh, then the flush and the transports' Close
CloseWait(g) ==
    /\ ~ClosePanicked
    /\ closePc[g] = "wait"
    /\ rateLimitDoneCh = "closed"
    /\ closePc' = [closePc EXCEPT ![g] = "done"]
    /\ UNCHANGED <<rateLimitStopCh, stopCloses>>
    /\ CloseKeeps

\* New, then WithFields: the child holds the parent's channels
InitClose ==
    /\ batchSize = MaxBatchSize
    /\ maxRetries = MaxRetriesCfg
    /\ pc = [q \in Procs |-> IF q = Bg THEN "loop" ELSE "idle"]
    /\ InitCommon
    /\ \E rate \in RateCfgs, ratio \in RatioCfgs : NewRateLimiter(rate, ratio)
    /\ TrackerOff /\ LoggerOff /\ KeyOff
    /\ HandlesOff /\ SendOff /\ LineOff
    /\ PayloadOff /\ LocksOff /\ WaitOff /\ CloseOff
    /\ \E handler \in BOOLEAN : NewReporter(rateLimiter = "set" /\ handler)

NextClose ==
    \/ \E g \in LogHandles : CloseSelect(g)
    \/ \E g \in LogHandles : CloseStop(g)
    \/ \E g \in LogHandles : CloseWait(g)
    \/ ~ClosePanicked /\ RepAllow
    \/ ~ClosePanicked /\ RepTick
    \/ ~ClosePanicked /\ RepStop

SpecClose == InitClose /\ [][NextClose]_vars

\* ------------------------------------------------------------- buildPayload
\* one call; for _, s := range streams goes over the map in the given order
BuildPayloadCall(order) ==
    /\ ~payRet.called
    /\ payRet' = IF FormatFails(payEntries)
                 THEN [NoPayRet EXCEPT !.called = TRUE, !.failed = TRUE]
                 ELSE [NoPayRet EXCEPT !.called = TRUE,
                          !.streams = [i \in DOMAIN order |->
                                          GroupEntries(payEntries, Len(payEntries))[order[i]]]]
    /\ UNCHANGED <<besidePayload, payEntries>>

InitPayload ==
    /\ batchSize = MaxBatchSize
    /\ maxRetries = MaxRetriesCfg
    /\ pc = [q \in Procs |-> IF q = Bg THEN "loop" ELSE "idle"]
    /\ InitCommon
    /\ LimiterOff /\ TrackerOff /\ LoggerOff /\ KeyOff
    /\ HandlesOff /\ SendOff /\ LineOff /\ ReporterOff
    /\ \E es \in Batches : NewPayload(es)
    /\ LocksOff /\ WaitOff /\ CloseOff

NextPayload ==
    \E order \in RangeOrders(GroupEntries(payEntries, Len(payEntries))) : BuildPayloadCall(order)

SpecPayload == InitPayload /\ [][NextPayload]_vars

\* ------------------------------------- trackLabelCardinality, lock by lock
\* the goroutine g holds the mutex of its Logger
HoldsMutex(g) == cardinalityMu[MutexOf(LoggerOf[g])] = g

\* the values and the mutexes the steps leave alone
TrackStep(g, f) ==
    /\ trackFrame' = [trackFrame EXCEPT ![g] = f]
    /\ trackRet' = NoTrack
    /\ UNCHANGED <<besideLocks, maxLabelCardinality, tracks>>

\* a goroutine calls trackLabelCardinality: return at once if tracking is off
LockTrackCall(g, key, value) ==
    /\ trackFrame[g].pc = "idle"
    /\ tracks < MaxLockTracks
    /\ tracks' = tracks + 1
    /\ trackFrame' = [trackFrame EXCEPT ![g] =
                         IF TrackingOff THEN NoTrackFrame
                         ELSE [NoTrackFrame EXCEPT !.pc = "lock", !.key = key, !.value = value]]
    /\ trackRet' = IF TrackingOff THEN [NoTrack EXCEPT !.key = key] ELSE NoTrack
    /\ UNCHANGED <<besideLocks, maxLabelCardinality, labelCardinalityMap, warnings,
                   cardinalityMu, stored>>

\* l.cardinalityMu.Lock() returns
LockTrackLock(g) ==
    /\ trackFrame[g].pc = "lock"
    /\ LockReady(cardinalityMu[MutexOf(LoggerOf[g])])
    /\ cardinalityMu' = [cardinalityMu EXCEPT ![MutexOf(LoggerOf[g])] = g]
    /\ TrackStep(g, [trackFrame[g] EXCEPT !.pc = "add"])
    /\ UNCHANGED <<labelCardinalityMap, warnings, stored>>

\* the insertion into the map, begun: the set of the key is found
LockTrackAdd(g) ==
    /\ trackFrame[g].pc = "add"
    /\ TrackStep(g, [trackFrame[g] EXCEPT !.pc = "store",
                                          !.seen = labelCardinalityMap[trackFrame[g].key]])
    /\ UNCHANGED <<labelCardinalityMap, warnings, cardinalityMu, stored>>

\* the insertion made: l.labelCardinalityMap[labelKey][labelValue] = struct{}{}
LockTrackStore(g) ==
    /\ trackFrame[g].pc = "store"
    /\ labelCardinalityMap' = [labelCardinalityMap EXCEPT ![trackFrame[g].key] =
                                   Recorded(trackFrame[g].seen, trackFrame[g].value)]
    /\ stored' = stored \cup {<<trackFrame[g].key, trackFrame[g].value>>}
    /\ TrackStep(g, [trackFrame[g] EXCEPT !.pc = "check", !.seen = {}])
    /\ UNCHANGED <<warnings, cardinalityMu>>

\* uniqueCount := len(...): the handler is called, or the call returns and the
\* deferred Unlock runs
LockTrackCheck(g) ==
    /\ trackFrame[g].pc = "check"
    /\ LET uniqueCount == Cardinality(labelCardinalityMap[trackFrame[g].key])
       IN IF ShouldWarn(uniqueCount)
          THEN /\ TrackStep(g, [trackFrame[g] EXCEPT !.pc = "handler", !.count = uniqueCount])
               /\ UNCHANGED cardinalityMu
          ELSE /\ TrackStep(g, NoTrackFrame)
               /\ cardinalityMu' = [m \in 1..2 |-> IF cardinalityMu[m] = g THEN "free"
                                                   ELSE cardinalityMu[m]]
    /\ UNCHANGED <<labelCardinalityMap, warnings, stored>>

\* CardinalityWarningHandler returns; the call returns and the deferred Unlock runs
LockTrackHandler(g) ==
    /\ trackFrame[g].pc = "handler"
    /\ warnings' = [warnings EXCEPT ![trackFrame[g].key] =
                       Append(@, <<trackFrame[g].key, trackFrame[g].count, maxLabelCardinality>>)]
    /\ cardinalityMu' = [m \in 1..2 |-> IF cardinalityMu[m] = g THEN "free" ELSE cardinalityMu[m]]
    /\ TrackStep(g, NoTrackFrame)
    /\ UNCHANGED <<labelCardinalityMap, stored>>

\* a parent Logger and its child, a tracker of any threshold
InitLocks ==
    /\ batchSize = MaxBatchSize
    /\ maxRetries = MaxRetriesCfg
    /\ pc = [q \in Procs |-> IF q = Bg THEN "loop" ELSE "idle"]
    /\ InitCommon
    /\ LimiterOff /\ LoggerOff /\ KeyOff
    /\ HandlesOff /\ SendOff /\ LineOff /\ ReporterOff /\ PayloadOff
    /\ \E threshold \in 0..MaxThreshold : NewTracker(threshold)
    /\ NewLocks
    /\ WaitOff /\ CloseOff

NextLocks ==
    \/ \E g \in Trackers, key \in LabelKeys, value \in LabelValues : LockTrackCall(g, key, value)
    \/ \E g \in Trackers : LockTrackLock(g)
    \/ \E g \in Trackers : LockTrackAdd(g)
    \/ \E g \in Trackers : LockTrackStore(g)
    \/ \E g \in Trackers : LockTrackCheck(g)
    \/ \E g \in Trackers : LockTrackHandler(g)

SpecLocks == InitLocks /\ [][NextLocks]_vars

\* ------------------------------------------------- sendWithRetry's backoff
\* the loop begins its next attempt, every send before having failed: no wait
\* before attempt 0, the backoff before the others
AttemptBegin ==
    /\ waitRet.attempt < maxRetries
    /\ LET a == waitRet.attempt + 1
       IN waitRet' = IF a > 0
                     THEN [attempt |-> a, waited |-> TRUE, backoff |-> BackoffOf(a)]
                     ELSE [NoWaitRet EXCEPT !.attempt = a]
    /\ UNCHANGED besideWait

\* a client of any retry budget: MaxRetries is not validated
InitWait ==
    /\ batchSize = MaxBatchSize
    /\ maxRetries \in 0..MaxRetriesWide
    /\ pc = [q \in Procs |-> IF q = Bg THEN "loop" ELSE "idle"]
    /\ InitCommon
    /\ LimiterOff /\ TrackerOff /\ LoggerOff /\ KeyOff
    /\ HandlesOff /\ SendOff /\ LineOff /\ ReporterOff
    /\ PayloadOff /\ LocksOff /\ WaitOff /\ CloseOff

NextWait == AttemptBegin

SpecWait == InitWait /\ [][NextWait]_vars

\* -------------------------------------------------------------- labelsToKey
\* one call; the iteration order of the mapping is Go's choice
LabelsToKeyCall(order) ==
    /\ keyCalls < MaxKeyCalls
    /\ keyCalls' = keyCalls + 1
    /\ keyRet' = [order |-> order, keys |-> SortStrings(order),
                  key |-> labelsToKey(labels, order)]
    /\ keysSeen' = keysSeen \cup {[order |-> order, key |-> labelsToKey(labels, order)]}
    /\ UNCHANGED <<besideKey, labels>>

\* the transport idle, and a mapping of any content
InitKey ==
    /\ batchSize = MaxBatchSize
    /\ maxRetries = MaxRetriesCfg
    /\ pc = [q \in Procs |-> IF q = Bg THEN "loop" ELSE "idle"]
    /\ InitCommon
    /\ LimiterOff
    /\ TrackerOff
    /\ LoggerOff
    /\ \E m \in LabelMaps : NewKeyBuilder(m)
    /\ LateOff

NextKey == \E order \in RangeOrders(labels) : LabelsToKeyCall(order)

SpecKey == InitKey /\ [][NextKey]_vars

\* ------------------------------------------------------------------ claims
\* the sequence a, a+1, ..., b
Range(a, b) == [i \in 1..(b - a + 1) |-> a + i - 1]

\* the number of places of s that hold r
Occ(s, r) == Cardinality({i \in DOMAIN s : s[i] = r})

\* a Flush (from Write, Flush or the flusher) returned in the step just taken
FlushReturned == ret.op \in {"write", "flush", "timer", "stop"}

\* sendWithRetry ran in the Push call that returned in the step just taken
RetryReturned == ret.pushed = 1 /\ ret.sends > 0

\* a step of the background flusher
BgStep ==
    \/ FlushSwap(Bg)
    \/ PushCall(Bg)
    \/ \E ok \in BOOLEAN : SendEnd(Bg, ok)
    \/ Backoff(Bg)
    \/ BgSelect
    \/ BgExit

\* C1: a second Close() on the same LokiTransport does not panic (the stop
\* channel is never closed twice) and returns.
C1_SecondCloseSafe == ~panicked

\* C2: under any interleaving of Writes, explicit, timer and shutdown flushes,
\* every written record is either in the buffer (once) or in exactly one
\* swapped-out batch; no record is in two batches, none is lost between Write
\* and swap, and a swapped batch is handed to Push exactly once: it is either
\* about to be pushed by the goroutine that swapped it, or was pushed once.
C2_EachRecordInOneBatch ==
    \A r \in Written :
        /\ Occ(buffer, r) + swapCount[r] = 1
        /\ Cardinality({p \in Procs : r \in Recs(toSend[p])}) <= 1
        /\ \A p \in Procs : Occ(toSend[p], r) <= 1
        /\ pushCount[r] <= swapCount[r]
        /\ swapCount[r] = 1 =>
             (pushCount[r] = 0 <=> \E p \in Procs : pc[p] = "push" /\ r \in Recs(toSend[p]))

\* two batches are on their way at once while a later record is buffered
C2_Witness ==
    \E p, q \in Procs :
        /\ p # q
        /\ pc[p] = "sending" /\ toSend[p] # <<>>
        /\ pc[q] = "push" /\ toSend[q] # <<>>
        /\ buffer # <<>>

\* C3: a single writer of single-record Writes on an empty buffer, no tick:
\* the first batchSize-1 Writes trigger no Push; the Write that fills the
\* buffer to batchSize triggers one Push with all batchSize records and leaves
\* the buffer empty; a record written later stays buffered.
C3_BatchBoundary ==
    solo =>
        LET w == nextId - 1
            rest == w % batchSize
            last == Range(w - batchSize + 1, w)
        IN /\ pc[SoloWriter] # "idle" => (rest = 0 /\ w >= batchSize)
           /\ \A r \in Written :
                pushCount[r] =
                    IF r <= w - rest - (IF pc[SoloWriter] \in {"flush", "push"} THEN batchSize ELSE 0)
                    THEN 1 ELSE 0
           /\ buffer = IF pc[SoloWriter] = "flush" THEN last ELSE Range(w - rest + 1, w)
           /\ pc[SoloWriter] \in {"push", "sending", "backoff"} => toSend[SoloWriter] = last
           /\ (ret.by = SoloWriter /\ ret.pushed = 1) => (ret.batch = last /\ buffer = <<>>)
           /\ (ret.by = SoloWriter /\ ret.pushed = 0) => ret.batch = <<>>

\* batch size 2, three Writes: records 1 and 2 went out in one Push, 3 is buffered
C3_Witness ==
    /\ solo
    /\ batchSize = 2
    /\ nextId = 4
    /\ pc[SoloWriter] = "idle"
    /\ buffer = <<3>>
    /\ pushCount[1] = 1 /\ pushCount[2] = 1 /\ pushCount[3] = 0

\* C4: Flush on an empty buffer returns nil without calling Push; Push with
\* zero records returns nil without a send.
C4_EmptyIsNoop ==
    /\ (ret.op = "flush" /\ ret.batch = <<>>) => (ret.err = Nil /\ ret.pushed = 0)
    /\ (ret.op = "push" /\ ret.batch = <<>>) => (ret.err = Nil /\ ret.sends = 0)
    /\ \A p \in Procs : pc[p] \in {"sending", "backoff"} => toSend[p] # <<>>
    /\ \A p \in Procs : (pc[p] = "push" /\ op[p] # "push") => toSend[p] # <<>>

\* a Push of zero records has returned nil
C4_Witness ==
    /\ ret.op = "push"
    /\ ret.batch = <<>>
    /\ ret.err = Nil
    /\ buffer = <<>>

\* C5: sendWithRetry makes at most maxRetries+1 sends; it stops at the first
\* success and returns nil (two failures then a success: 3 sends, nil); when
\* all maxRetries+1 sends fail the error names maxRetries and wraps the last
\* attempt's failure.
C5_RetryBudget ==
    /\ \A p \in Procs :
         /\ sends[p] <= maxRetries + 1
         /\ pc[p] = "sending" => sends[p] = attempt[p] + 1
         /\ pc[p] = "backoff" => sends[p] = attempt[p]
    /\ RetryReturned =>
         /\ ret.sends <= maxRetries + 1
         /\ ret.fails \in {ret.sends - 1, ret.sends}
         /\ ret.fails = ret.sends - 1 => (ret.pushErr = Nil \/ ret.pushErr = CtxErr)
         /\ (ret.fails = ret.sends - 1 /\ ret.cancelAt = -1) => ret.pushErr = Nil
         /\ ret.pushErr = Nil => ret.fails = ret.sends - 1
         /\ (ret.fails = 2 /\ ret.pushErr = Nil) => ret.sends = 3
         /\ ret.fails = ret.sends =>
              (ret.pushErr = CtxErr
               \/ (ret.sends = maxRetries + 1
                   /\ ret.pushErr = Wrap("retries", maxRetries, SendErr(maxRetries))))
         /\ (ret.fails = ret.sends /\ ret.cancelAt = -1) => ret.sends = maxRetries + 1

\* the backend failed twice, then succeeded: three sends and nil
C5_Witness ==
    /\ RetryReturned
    /\ ret.fails = 2
    /\ ret.sends = 3
    /\ ret.pushErr = Nil
    /\ ret.cancelAt = -1

\* C6, as stated: when ctx is done between or within attempts, no further send
\* starts and the error sendWithRetry returns is the context's error.
C6_CancelGivesCtxErr ==
    /\ \A p \in Procs : cancelAt[p] >= 1 => sends[p] = cancelAt[p]
    /\ (RetryReturned /\ ret.cancelAt >= 1) =>
         /\ ret.sends = ret.cancelAt
         /\ ret.pushErr # Nil => ret.pushErr = CtxErr

\* C6, amended: when ctx is done between or within attempts, no further send
\* starts; the error returned is the context's error when ctx was done before
\* the last permitted attempt (the one numbered maxRetries+1) started, and the
\* retries-exhausted error wrapping that attempt's failure when ctx was done
\* during the last permitted attempt.
C6_CancelBeforeLastAttempt ==
    /\ \A p \in Procs : cancelAt[p] >= 1 => sends[p] = cancelAt[p]
    /\ (RetryReturned /\ ret.cancelAt >= 1) =>
         /\ ret.sends = ret.cancelAt
         /\ ret.pushErr # Nil =>
              ret.pushErr = IF ret.cancelAt <= maxRetries
                            THEN CtxErr
                            ELSE Wrap("retries", maxRetries, SendErr(maxRetries))

\* ctx was done during the second of three permitted attempts: no third send,
\* and the context's error
C6_Witness ==
    /\ RetryReturned
    /\ maxRetries >= 2
    /\ ret.cancelAt = 2
    /\ ret.sends = 2
    /\ ret.pushErr = CtxErr

\* C7: when Push fails for a swapped-out batch, Flush returns an error and the
\* batch is dropped: its records are not in the buffer again, the buffer holds
\* only records written after the swap, and no later flush sends them again.
C7_FailedBatchDropped ==
    /\ \A r \in Written : swapCount[r] >= 1 => (r \notin Recs(buffer) /\ pushCount[r] <= 1)
    /\ (FlushReturned /\ ret.pushErr # Nil) =>
         /\ ret.err = Wrap("push", 0, ret.pushErr)
         /\ \A r \in Recs(ret.batch) :
              /\ r \notin Recs(buffer)
              /\ pushCount[r] = 1
              /\ \A p \in Procs : r \notin Recs(toSend[p])
              /\ \A i \in DOMAIN buffer : buffer[i] > r

\* a Flush failed on exhausted retries while a later record is in the buffer
C7_Witness ==
    /\ FlushReturned
    /\ ret.pushErr = Wrap("retries", maxRetries, SendErr(maxRetries))
    /\ ret.batch # <<>>
    /\ buffer # <<>>

\* C8, as stated: when Close returns nil and no Write ran concurrently with it,
\* every record written before has been swapped out and handed to Push, and
\* the buffer is empty.
C8_CloseFlushesAll ==
    (ret.op = "close" /\ ret.err = Nil /\ "write" \notin ret.conc) =>
        /\ buffer = <<>>
        /\ \A r \in Written : swapCount[r] = 1 /\ pushCount[r] = 1

\* C8, amended: when Close returns nil and neither a Write nor an explicit
\* Flush of another goroutine ran concurrently with it, every record written
\* before has been swapped out and handed to Push, and the buffer is empty.
C8_CloseFlushesAllQuiet ==
    (ret.op = "close" /\ ret.err = Nil /\ ret.conc = {}) =>
        /\ buffer = <<>>
        /\ \A r \in Written : swapCount[r] = 1 /\ pushCount[r] = 1

\* Close returned nil, nothing ran beside it, and the records written went out
C8_Witness ==
    /\ ret.op = "close"
    /\ ret.err = Nil
    /\ ret.conc = {}
    /\ batchSize = 2
    /\ nextId = 2
    /\ pushCount[1] = 1

\* C9: Close returns nil only when the flusher has signalled completion
\* (doneCh closed, after its final flush returned); on the shutdown timeout it
\* returns the timeout error instead, and the flusher is not stopped: it can
\* still take its next step.
C9_CloseWaitsOrTimesOut ==
    /\ doneCh = "closed" => (stopCh = "closed" /\ pc[Bg] = "done" /\ toSend[Bg] = <<>>)
    /\ (ret.op = "close" /\ ret.err = Nil) => (doneCh = "closed" /\ pc[Bg] = "done")
    /\ (ret.op = "close" /\ doneCh = "open") => ret.err = TimeoutErr
    /\ (ret.op = "close" /\ ret.err # Nil) =>
         /\ ret.err = TimeoutErr
         /\ pc[Bg] # "done" => ENABLED BgStep

\* Close timed out while the flusher's final flush has a send in flight
C9_Witness ==
    /\ ret.op = "close"
    /\ ret.err = TimeoutErr
    /\ pc[Bg] = "sending"
    /\ op[Bg] = "stop"
    /\ doneCh = "open"

\* C10: once the stop signal is raised, the flusher makes exactly one more
\* Flush call, the final one, and terminates; it starts no timer-triggered
\* flush after the stop signal.
C10_OneFlushAfterStop ==
    [][/\ (stopCh' = "closed" /\ pc[Bg] \in {"loop", "blocked"} /\ pc'[Bg] = "flush")
            => op'[Bg] = "stop"
       /\ (op[Bg] = "stop" /\ op'[Bg] # "stop") => pc'[Bg] = "exit"
       /\ (pc[Bg] = "exit" /\ pc'[Bg] # "exit") => pc'[Bg] = "done"
       /\ pc[Bg] = "done" => pc'[Bg] = "done"]_vars

\* C11: no goroutine holds the buffer mutex while it has a Push (a send or a
\* backoff wait) in progress: the holder is always inside a critical section
\* of Write or Flush, which it can leave whatever the Pushes in flight do; so a
\* Write that leaves the buffer below batchSize returns from its critical
\* section without waiting for a Push.
C11_NoLockAcrossPush ==
    /\ \A p \in Procs : pc[p] \in {"push", "sending", "backoff"} => mu # p
    /\ \A p \in Procs : pc[p] \in {"wcrit", "fcrit"} <=> mu = p
    /\ mu # "free" => ENABLED MuRelease(mu)
    /\ (ret.op = "write" /\ ret.pushed = 0) => (mu = "free" /\ pc[ret.by] = "idle")

\* a Write below batchSize has returned while another goroutine's send is in flight
C11_Witness ==
    /\ ret.op = "write"
    /\ ret.by = "c1"
    /\ ret.pushed = 0
    /\ buffer # <<>>
    /\ pc["c2"] = "sending"
    /\ pc[Bg] = "backoff"

\* C16: a limiter configured with max-events-per-second <= 0 is disabled: every
\* Allow returns (true, false) and GetAndResetStats always returns (0, 0).
C16_DisabledAdmitsAll ==
    maxLogsPerSecond <= 0 =>
        /\ rlRet.op = "allow" => (rlRet.allowed /\ ~rlRet.sampled)
        /\ rlRet.op = "stats" => (rlRet.dropped = 0 /\ rlRet.nsampled = 0)
        /\ tally.dropped = 0 /\ tally.sampled = 0

\* a limiter configured with a negative rate has admitted MaxAllows calls
C16_Witness ==
    /\ maxLogsPerSecond < 0
    /\ tally.allows = MaxAllows
    /\ rlRet.op = "allow"
    /\ rlRet.allowed
    /\ ~rlRet.sampled

\* C17: on a full bucket of capacity N, N consecutive Allow calls with no time
\* elapsing between them return (true, false); the (N+1)-th is not a token
\* admission: it returns (true, true) or (false, false).
C17_BurstOfCapacity ==
    (rateLimiter = "set" /\ rlRet.op = "allow") =>
        /\ rlRet.k \in 1..maxLogsPerSecond => (rlRet.allowed /\ ~rlRet.sampled)
        /\ rlRet.k = maxLogsPerSecond + 1 => (rlRet.allowed <=> rlRet.sampled)

\* after a second without calls, the third call of a burst on capacity 2 is dropped
C17_Witness ==
    /\ maxLogsPerSecond = 2
    /\ rlRet.op = "allow"
    /\ rlRet.k = 3
    /\ ~rlRet.allowed
    /\ clock >= 2 * TokenParts

\* C19: under any interleaving of Allow and GetAndResetStats, each drop and
\* each sampled admission is reported by exactly one GetAndResetStats: the
\* values returned so far plus the current counter equal the number of Allow
\* calls that returned (false, false), resp. (true, true), and both counters
\* are zero right after a GetAndResetStats.
C19_StatsReportedOnce ==
    /\ tally.repDropped + droppedCount = tally.dropped
    /\ tally.repSampled + sampledCount = tally.sampled
    /\ rlRet.op = "stats" => (droppedCount = 0 /\ sampledCount = 0)

\* a report returned a drop and a sample while an Allow call waits for the mutex
C19_Witness ==
    /\ rlRet.op = "stats"
    /\ rlRet.dropped >= 1
    /\ rlRet.nsampled >= 1
    /\ tally.repDropped + tally.repSampled >= 2
    /\ \E c \in Allowers : rlPc[c] = "allowLock"

\* C15: for any sequence of track calls on one label key with threshold T > 0,
\* repeats included, the warning callback is invoked exactly once: on the call
\* that raises the number of distinct values from T to T+1, with the arguments
\* (key, T+1, T), and on no earlier or later call.
C15_WarnsExactlyOnce ==
    maxLabelCardinality > 0 =>
        /\ \A key \in LabelKeys :
             warnings[key] =
                 IF Cardinality(labelCardinalityMap[key]) > maxLabelCardinality
                 THEN <<(<<key, maxLabelCardinality + 1, maxLabelCardinality>>)>>
                 ELSE <<>>
        /\ trackRet.warned <=>
             (trackRet.before = maxLabelCardinality /\ trackRet.after = maxLabelCardinality + 1)

\* the failures, or the callbacks, that are about a Write or a Flush
OfWriteOrFlush(seq) == SelectSeq(seq, LAMBDA x : x[2][1].k \in {"Write", "Flush"})

\* C12: with an error callback configured, every Write or Flush of a transport
\* that failed, in a logging call, in FlushContext, in CloseContext, in the
\* background flusher's timer flush or in its final flush, was passed to the
\* callback with the transport's name and the error.
C12_EveryFailureReported ==
    (errorHandler # "nil" /\ lgRet.by # "none")
        => OfWriteOrFlush(lgRet.cbs) = OfWriteOrFlush(lgRet.fails)

\* C13: the error callback never runs while the goroutine that invokes it
\* holds the Loki transport's buffer mutex or the Logger's lock on its
\* transports, in log, FlushContext and CloseContext.
C13_HandlerOutsideLocks ==
    /\ \A g \in Loggers : frame[g].held = {}
    /\ lgRet.held = {}

\* the calls a Logger call makes when it reaches every transport, in order
OnEach(method) == [i \in 1..Len(transports) |-> <<method, transports[i]>>]

CallsOf(o) ==
    IF o = "log" THEN OnEach("Write")
    ELSE IF o = "flush" THEN OnEach("Flush")
    ELSE OnEach("Flush") \o OnEach("Close")

\* C14: a logging call that passed the admission filters has called Write
\* exactly once on every transport, in order; FlushContext has called Flush on
\* every transport; CloseContext has called Flush and then Close exactly once
\* on every transport; whatever the earlier calls returned.
C14_EveryTransportCalled ==
    (lgRet.by \in Loggers /\ lgRet.admitted) => lgRet.trace = CallsOf(lgRet.op)

\* CloseContext returned after the first transport's Flush had failed
C14_Witness ==
    /\ lgRet.by \in Loggers
    /\ lgRet.op = "close"
    /\ Len(transports) = 2
    /\ Len(lgRet.fails) > 0
    /\ lgRet.fails[1] = <<transports[1], Failure("Flush", 1)>>
    /\ lgRet.err = Failure("Flush", 1)

\* C18: a logging call at a level of AlwaysLogLevels that passes the minimum
\* level is written to every transport whatever the limiter holds, and makes
\* no Allow call: the tokens and the dropped and sampled counters are as before.
C18_AlwaysLevelsBypass ==
    /\ \A g \in Loggers :
         (frame[g].op = "log" /\ frame[g].level \in alwaysLogLevels)
            => ~frame[g].allowCalled /\ ~frame[g].touched
    /\ (/\ lgRet.by \in Loggers
        /\ lgRet.op = "log"
        /\ lgRet.level \in alwaysLogLevels
        /\ IsEnabled(lgRet.level, logLevel))
        => /\ lgRet.admitted
           /\ lgRet.trace = OnEach("Write")
           /\ ~lgRet.allowCalled
           /\ ~lgRet.touched

\* an exempt record was written while the bucket was empty and a record had been dropped
C18_Witness ==
    /\ lgRet.by \in Loggers
    /\ lgRet.op = "log"
    /\ lgRet.level \in alwaysLogLevels
    /\ lgRet.admitted
    /\ lgRet.trace = OnEach("Write")
    /\ rateLimiter = "set"
    /\ ~HasToken(tokens)
    /\ droppedCount > 0

\* key=value; of the label k
Pair(k) == k \o <<"=">> \o labels[k] \o <<";">>

\* the pairs of the first n of the keys ks, one after the other
RECURSIVE Joined(_, _)
Joined(ks, n) == IF n = 0 THEN <<>> ELSE Joined(ks, n - 1) \o Pair(ks[n])

\* C20: labelsToKey does not depend on the order in which the mapping is gone
\* over: all calls on a mapping return the same key, the key is key=value;
\* of each label with the keys in ascending byte order, and the mapping without
\* labels gives the empty string.
C20_KeyIgnoresOrder ==
    /\ \A a, b \in keysSeen : a.key = b.key
    /\ \A c \in keysSeen :
         \E ks \in RangeOrders(labels) :
            /\ \A i, j \in DOMAIN ks : i < j => StringLess(ks[i], ks[j])
            /\ c.key = Joined(ks, Len(ks))
    /\ (labels = NoLabels /\ keyCalls > 0) => keyRet.key = <<>>

\* three labels, one a prefix of another, gone over in two different orders
C20_Witness ==
    /\ Cardinality(DOMAIN labels) = 3
    /\ \E a, b \in keysSeen : a.order # b.order /\ a.order # SortStrings(a.order)
    /\ keyRet.key = <<"a", "=", "1", ";", "a", "b", "=", "2", ";", "b", "=", "1", ";">>

\* C21: labelsToKey is injective: a mapping that differs from labels in a key
\* or a value gets a key different from the key of labels, so that records
\* share a stream only if their label sets are identical.
C21_KeyInjective ==
    \A c \in keysSeen :
        \A m \in LabelMaps :
            m # labels => \A o \in RangeOrders(m) : labelsToKey(m, o) # c.key

\* the first mapping overridden and extended by the second
Overridden(m, given) ==
    [k \in DOMAIN m \cup DOMAIN given |-> IF k \in DOMAIN given THEN given[k] ELSE m[k]]

\* C22: WithLabels returns a Logger whose labels are the parent's overridden
\* and extended by the given ones and whose transports are the parent's; the
\* labels of no Logger change after it was made, and a log through a Logger
\* carries, of the configurable labels, exactly its own.
C22_ChildLabels ==
    /\ labelRet.op = "WithLabels" =>
          LET child == loggerObjs[labelRet.child]
              parent == loggerObjs[labelRet.parent]
          IN /\ mapObjs[child.labels] = Overridden(labelRet.before, labelRet.given)
             /\ mapObjs[parent.labels] = labelRet.before
             /\ child.transports = parent.transports
    /\ \A h \in DOMAIN loggerObjs : mapObjs[loggerObjs[h].labels] = loggerObjs[h].made
    /\ labelRet.op = "log" =>
          LET made == loggerObjs[labelRet.parent].made
          IN \A k \in HandleKeys :
                IF k \in DOMAIN made
                THEN k \in DOMAIN labelRet.labels /\ labelRet.labels[k] = made[k]
                ELSE k \notin DOMAIN labelRet.labels

\* a log through the parent after a child overrode env and added component
C22_Witness ==
    /\ labelRet.op = "log"
    /\ labelRet.parent = 1
    /\ Len(loggerObjs) >= 2
    /\ loggerObjs[1].made = [k \in {"env"} |-> "prod"]
    /\ loggerObjs[2].made = [k \in {"env", "component"} |-> "dev"]
    /\ labelRet.labels = [k \in {"app", "level", "env"} |->
                            IF k = "app" THEN "test-app"
                            ELSE IF k = "level" THEN "info" ELSE "prod"]

\* the error of the first failed call of method among the failures, or nil
FirstOf(failures, method) ==
    LET of == SelectSeq(failures, LAMBDA x : x[2][1].k = method)
    IN IF of = <<>> THEN Nil ELSE of[1][2]

\* C23: FlushContext returns the error of the first transport, in the order of
\* the configuration, whose Flush failed, or nil; CloseContext returns the
\* error of its flush step if that failed, otherwise the error of the first
\* transport whose Close failed, otherwise nil.
C23_FirstErrorReturned ==
    /\ (lgRet.by \in Loggers /\ lgRet.op = "flush")
          => lgRet.err = FirstOf(lgRet.fails, "Flush")
    /\ (lgRet.by \in Loggers /\ lgRet.op = "close")
          => lgRet.err = IF FirstOf(lgRet.fails, "Flush") # Nil
                         THEN FirstOf(lgRet.fails, "Flush")
                         ELSE FirstOf(lgRet.fails, "Close")

\* CloseContext returned the first of two Close errors after a clean flush
C23_Witness ==
    /\ lgRet.by \in Loggers
    /\ lgRet.op = "close"
    /\ lgRet.fails = <<<<transports[1], Failure("Close", 1)>>,
                       <<transports[2], Failure("Close", 2)>>>>
    /\ lgRet.err = Failure("Close", 1)

\* the backend answered, with a status outside 200..299
AnsweredBadly == sendRet.called /\ ~resp.doFails /\ BadStatus(resp.status)

\* the first bytes of the body the backend sends, maxErrorBodySize at most
BodyHead == SubSeq(resp.body, 1, Least(Len(resp.body), maxErrorBodySize))

\* C24 as stated: on a status outside 200..299 the error's text holds the
\* status code and the response body, of which at most maxErrorBodySize bytes
\* are read and included.
C24_StatusAndBodyInError ==
    AnsweredBadly =>
        /\ sendRet.err.status = resp.status
        /\ sendRet.err.body = BodyHead
        /\ Len(sendRet.read) <= maxErrorBodySize

\* C24: on a status outside 200..299 send returns an error with the status
\* code; at most maxErrorBodySize bytes of the body are read; if the read
\* ends without an error the text also holds the bytes read, which are the
\* first bytes of the body, and if the read fails it holds no body.
C24_StatusAndReadBody ==
    AnsweredBadly =>
        /\ sendRet.err # NoErr
        /\ sendRet.err.status = resp.status
        /\ Len(sendRet.read) <= maxErrorBodySize
        /\ IF sendRet.readErr
           THEN sendRet.err.body = <<>>
           ELSE sendRet.err.body = sendRet.read /\ sendRet.read = BodyHead

\* status 500 with a body longer than the limit: the text ends before the last byte
C24_Witness ==
    /\ AnsweredBadly
    /\ resp.status = 500
    /\ Len(resp.body) = maxErrorBodySize + 1
    /\ ~sendRet.readErr
    /\ Len(sendRet.err.body) = maxErrorBodySize
    /\ sendRet.err.body[maxErrorBodySize] = "x"

\* the member of the line with the key k is the JSON value j
HasMember(k, j) == \E i \in DOMAIN lineRet.line : lineRet.line[i] = [key |-> k, json |-> j]

\* C25: the serialized line of every record is a JSON object whose level is
\* the record's level name as a string, whose message is the record's message
\* as a string, and which has every field of the record at the top level, for
\* all fields, fields named level or message included.
C25_LineHoldsLevelAndMessage ==
    (lineRet.called /\ ~lineRet.failed) =>
        /\ HasMember("level", [kind |-> "string", text |-> entry.level])
        /\ HasMember("message", [kind |-> "string", text |-> entry.message])
        /\ \A k \in DOMAIN entry.fields : HasMember(k, JsonOf(entry.fields[k]))


\* C26: whenever the buffer mutex is free the buffer holds at most batchSize
\* records, and no batch taken by Flush for Push holds more than batchSize
C26_BufferWithinBatchSize ==
    /\ mu = "free" => Len(buffer) <= batchSize
    /\ \A p \in Procs : Len(toSend[p]) <= batchSize

\* C27 as stated: the handler is invoked at every tick of the reporting interval
C27_HandlerAtEveryTick == repRet.on = "tick" => repRet.called

\* C27: at a tick or at the stop signal the handler is invoked exactly if a log
\* was dropped or sampled since the previous report, and then with the counts
\* accumulated since that report
C27_HandlerWhenCountsPending ==
    repRet.on # "none" =>
        /\ repRet.called <=> repRet.pending # <<0, 0>>
        /\ <<repRet.dropped, repRet.sampled>> = repRet.pending

\* a second report: a tick calls the handler after an earlier report was made
C27_Witness ==
    /\ repRet.on = "tick"
    /\ repRet.called
    /\ tally.repDropped + tally.repSampled > repRet.dropped + repRet.sampled

\* C28: once the stop signal is raised the flusher eventually closes doneCh,
\* whether Close is still waiting or has returned its timeout error
C28_StopLeadsToDone == (stopCh = "closed") ~> (doneCh = "closed")

\* as long as no second Close panics, the flusher does close doneCh
StopLeadsToDoneUnlessPanic == (stopCh = "closed") ~> (doneCh = "closed" \/ panicked)

\* C29: while the stop signal is not raised, every record in the buffer is
\* eventually swapped out of it
C29_BufferedRecordLeaves ==
    \A r \in 1..MaxRecords :
        (Occ(buffer, r) > 0 /\ stopCh = "open") ~> (Occ(buffer, r) = 0 \/ stopCh = "closed")

\* a timer-triggered flush took records out of the buffer while the transport
\* runs and no caller is inside a call
C29_Witness ==
    /\ stopCh = "open"
    /\ op[Bg] = "timer"
    /\ pc[Bg] = "push"
    /\ toSend[Bg] # <<>>
    /\ \A c \in Callers : pc[c] = "idle"

\* C30: a batch swapped out by Flush is never modified afterwards: the swap
\* hands over the whole buffer and installs an empty one, a Write made while a
\* Push is in progress changes no batch, so every attempt sends the same
\* records, and no record is in two batches or in a batch and the buffer
C30_SwappedBatchFrozen ==
    [][\A p \in Procs :
          /\ (pc[p] \in Pushing /\ pc'[p] \in Pushing) => toSend'[p] = toSend[p]
          /\ (pc[p] = "flush" /\ pc'[p] = "push") =>
                (toSend'[p] = buffer /\ buffer' = <<>>)
          /\ pc'[p] \in Pushing =>
                /\ Recs(toSend'[p]) \cap Recs(buffer') = {}
                /\ \A q \in Procs \ {p} :
                      pc'[q] \in Pushing => Recs(toSend'[p]) \cap Recs(toSend'[q]) = {}
      ]_vars

\* a batch is at its second attempt while a record written after the swap is
\* in the buffer
C30_Witness ==
    \E p \in Procs :
        /\ pc[p] = "sending"
        /\ attempt[p] >= 1
        /\ toSend[p] # <<>>
        /\ buffer # <<>>
        /\ buffer[1] > toSend[p][Len(toSend[p])]

\* the place of the record r in the sequence s, 0 if it is not in it
Place(s, r) == IF Occ(s, r) = 0 THEN 0 ELSE CHOOSE i \in DOMAIN s : s[i] = r

\* r1 stands before r2 wherever both are in s
InOrder(s, r1, r2) == (Occ(s, r1) > 0 /\ Occ(s, r2) > 0) => Place(s, r1) < Place(s, r2)

\* C31: records are numbered as they are appended, so a writer's earlier
\* record r1 has the smaller number: r1 is swapped out no later than r2, never
\* stays buffered once r2 was swapped out, and stands before r2 in the buffer
\* and in every batch that holds both
C31_ProgramOrderKept ==
    \A r1, r2 \in Written :
        r1 < r2 =>
            /\ swapCount[r2] >= 1 => (swapCount[r1] >= 1 /\ Occ(buffer, r1) = 0)
            /\ InOrder(buffer, r1, r2)
            /\ \A p \in Procs : InOrder(toSend[p], r1, r2)
            /\ InOrder(ret.batch, r1, r2)
            /\ \A p \in Procs : Occ(toSend[p], r2) > 0 => Occ(buffer, r1) = 0

\* two records went out in one batch, in their order, and an earlier record in
\* an earlier batch that another goroutine still holds
C31_Witness ==
    \E p, q \in Procs :
        /\ p # q
        /\ Len(toSend[p]) >= 2
        /\ toSend[q] # <<>>
        /\ toSend[q][1] < toSend[p][1]

\* the streams of the payload that hold the value of the record at place i
StreamsOf(i) == {j \in DOMAIN payRet.streams : Occ(payRet.streams[j].values, i) > 0}

\* C32: the payload has one stream per distinct label set of the batch; every
\* record has one value, in the stream of its own label set and in no other;
\* the values of a stream stand in the order of the records in the batch
C32_StreamsPartitionBatch ==
    (payRet.called /\ ~payRet.failed) =>
        /\ Len(payRet.streams) = Cardinality({payEntries[i].labels : i \in DOMAIN payEntries})
        /\ \A i \in DOMAIN payEntries :
              /\ Cardinality(StreamsOf(i)) = 1
              /\ \A j \in StreamsOf(i) :
                    /\ Occ(payRet.streams[j].values, i) = 1
                    /\ payRet.streams[j].stream = payEntries[i].labels
        /\ \A j \in DOMAIN payRet.streams :
              \A x, y \in DOMAIN payRet.streams[j].values :
                  x < y => payRet.streams[j].values[x] < payRet.streams[j].values[y]

\* C33: parent and child track into one map under one mutex: the set recorded
\* for a label key is the set of the values whose insertion was made through
\* either Logger, so no insertion is lost and no set shrinks
C33_NoTrackedValueLost ==
    \A k \in LabelKeys : labelCardinalityMap[k] = {v \in LabelValues : <<k, v>> \in stored}

\* a value is recorded for a key; one goroutine is about to insert a second
\* value for it while the other waits at the mutex with a third
C33_Witness ==
    \E k \in LabelKeys :
        /\ labelCardinalityMap[k] # {}
        /\ \E g, h \in Trackers :
              /\ trackFrame[g].pc = "lock" /\ trackFrame[g].key = k
              /\ trackFrame[h].pc = "store" /\ trackFrame[h].key = k
              /\ trackFrame[g].value # trackFrame[h].value
              /\ {trackFrame[g].value, trackFrame[h].value} \cap labelCardinalityMap[k] = {}

\* C39: while the warning handler runs, its goroutine holds the tracker's
\* mutex and every other goroutine is outside the critical section, waiting
\* at Lock if it is tracking: no second handler runs and no map update is made
C39_HandlerUnderMutex ==
    \A g \in Trackers :
        trackFrame[g].pc = "handler" =>
            /\ HoldsMutex(g)
            /\ \A h \in Trackers \ {g} : trackFrame[h].pc \in {"idle", "lock"}

\* the handler runs while the other goroutine waits for the mutex
C39_Witness ==
    \E g, h \in Trackers :
        /\ trackFrame[g].pc = "handler"
        /\ trackFrame[h].pc = "lock"

\* Running, Draining, Stopped: by the two signals
Phase == IF doneCh = "closed" THEN 2 ELSE IF stopCh = "closed" THEN 1 ELSE 0

\* C34: doneCh is closed by the flusher's return only, which happens once and
\* with stopCh closed; a closed signal stays closed; the lifecycle goes from
\* Running to Draining to Stopped and never back
C34_SignalsOneShotOrdered ==
    [][/\ (doneCh = "open" /\ doneCh' = "closed") =>
             (pc[Bg] = "exit" /\ pc'[Bg] = "done" /\ stopCh = "closed")
       /\ pc[Bg] = "done" => (pc'[Bg] = "done" /\ doneCh = "closed")
       /\ stopCh = "closed" => stopCh' = "closed"
       /\ doneCh = "closed" => (doneCh' = "closed" /\ stopCh = "closed")
       /\ Phase' \in {Phase, Phase + 1}
      ]_vars

\* Stopped: Close returned nil after the flusher closed doneCh
C34_Witness ==
    /\ ret.op = "close"
    /\ ret.err = Nil
    /\ Phase = 2
    /\ pc[Bg] = "done"

\* the capacity of the bucket, and the count the refill of this call gives
Capacity == maxLogsPerSecond * TokenParts
Fill == IF tokens + (clock - lastRefill) > Capacity THEN Capacity
        ELSE tokens + (clock - lastRefill)

\* C35: after every Allow call on an enabled limiter 0 <= tokens <= capacity;
\* an admission by token lowers the refilled count by one token, a sampled or
\* dropped decision leaves the refilled count
C35_TokensWithinCapacity ==
    [][\A c \in Allowers :
          (rateLimiter = "set" /\ rlPc[c] = "allow" /\ rlPc'[c] = "idle") =>
              /\ 0 <= tokens' /\ tokens' <= Capacity
              /\ rlRet'.op = "allow"
              /\ (rlRet'.allowed /\ ~rlRet'.sampled) => tokens' = Fill - TokenParts
              /\ (rlRet'.sampled \/ ~rlRet'.allowed) => (tokens' = Fill /\ Fill < TokenParts)
      ]_vars

\* a call was dropped on a bucket that the refill had filled to a part of a token
C35_Witness ==
    /\ rateLimiter = "set"
    /\ rlRet.op = "allow"
    /\ ~rlRet.allowed
    /\ tokens > 0
    /\ tokens < TokenParts

\* C36: no wait before the first attempt; the wait before retry attempt k is
\* 100 ms * 2^(k-1) exactly, a positive duration, for every k up to maxRetries
C36_BackoffDoubles ==
    /\ waitRet.attempt = 0 => ~waitRet.waited
    /\ waitRet.attempt >= 1 =>
          /\ waitRet.waited
          /\ waitRet.backoff = [sign |-> "positive", exact |-> TRUE]

\* C38: the rate-limit stop channel shared by a parent and its children is
\* closed at most once, whatever the CloseContext calls and their interleaving
C38_StopChannelClosedOnce == stopCloses <= 1

\* the limiter as the log call left it
LimiterKept == UNCHANGED <<tokens, droppedCount, sampledCount, lastRefill, tally>>

\* the cardinality tracker as the log call left it
TrackerKept == UNCHANGED <<labelCardinalityMap, warnings, tracks>>

\* C37: a log call below the minimum level calls neither Allow nor the
\* cardinality tracker nor a transport; a log call the limiter rejects is
\* written to no transport and adds no label to the cardinality map; what is
\* tracked or written was let through by the level filter and by the limiter
C37_AdmissionInOrder ==
    [][/\ \A g \in LogWriters :
            (frame[g].pc = "idle" /\ lgRet'.op = "log" /\ lgRet'.by = g) =>
               /\ ~IsEnabled(lgRet'.level, logLevel) =>
                     /\ ~lgRet'.allowCalled
                     /\ LimiterKept
                     /\ TrackerKept
                     /\ lgRet'.trace = <<>>
                     /\ frame'[g].pc = "idle"
               /\ (lgRet'.allowCalled /\ ~rlRet'.allowed) =>
                     /\ TrackerKept
                     /\ lgRet'.trace = <<>>
                     /\ frame'[g].pc = "idle"
               /\ (IsEnabled(lgRet'.level, logLevel)
                     /\ ~(lgRet'.allowCalled /\ ~rlRet'.allowed)) => FALSE
       /\ \A g \in LogWriters :
            (frame[g].pc = "idle" /\ frame'[g].pc # "idle") =>
               /\ IsEnabled(frame'[g].level, logLevel)
               /\ frame'[g].allowCalled => rlRet'.allowed
               /\ ~frame'[g].allowCalled => LimiterKept
       /\ ~TrackerKept =>
            \E g \in LogWriters : frame[g].pc = "idle" /\ frame'[g].pc # "idle"
       /\ (lgRet'.op = "log" /\ lgRet'.trace # <<>>) =>
            IsEnabled(lgRet'.level, logLevel)]_vars

\* a record rejected by the limiter of a Logger that has tracked labels
C37_Witness ==
    /\ lgRet.op = "log"
    /\ lgRet.allowCalled
    /\ rlRet.op = "allow"
    /\ ~rlRet.allowed
    /\ lgRet.trace = <<>>
    /\ labelCardinalityMap["level"] # {}
    /\ logLevel = "info"

\* the background flusher returned and closed doneCh
FlusherGone == pc[Bg] = "done"

\* C40: once the background flusher has terminated, Write still appends; below
\* batchSize it returns nil with the record buffered, from batchSize on it
\* starts the size-triggered flush; the flusher takes no tick and no batch any
\* more, so that the buffer is taken only by the Flush of a Write or of a caller
C40_WriteAfterFlusherGone ==
    [][FlusherGone =>
         /\ FlusherGone'
         /\ op'[Bg] = op[Bg]
         /\ toSend'[Bg] = toSend[Bg]
         /\ tickPending' = tickPending
         /\ nextId' > nextId =>
               /\ buffer' = buffer \o [i \in 1..(nextId' - nextId) |-> nextId + i - 1]
               /\ \E p \in Callers :
                     /\ pc[p] = "idle"
                     /\ IF Len(buffer') < batchSize
                        THEN /\ pc' = pc
                             /\ ret'.by = p /\ ret'.op = "write" /\ ret'.err = Nil
                        ELSE /\ pc' = [pc EXCEPT ![p] = "flush"]
                             /\ op'[p] = "write"
         /\ swapCount' # swapCount =>
               \E p \in Callers :
                  /\ pc[p] = "flush"
                  /\ op[p] \in {"write", "flush"}
                  /\ toSend'[p] = buffer]_vars

\* a record written after the flusher terminated waits in the buffer
C40_Witness ==
    /\ FlusherGone
    /\ ret.op = "write"
    /\ ret.err = Nil
    /\ Len(buffer) = 1
    /\ batchSize > 1
    /\ \A r \in DOMAIN swapCount : swapCount[r] = 0

====
